---- MODULE Spec2Model ----
(***************************************************************************)
(* Captcha-gated download orchestration of the SICAR client.               *)
(*                                                                         *)
(* Four retry loops are modelled, one call at a time:                      *)
(*   Sicar.download_state                 (library, region/polygon, file)  *)
(*   Sicar.download_by_car_number         (library, property/CAR, file)    *)
(*   SicarService.download_polygon_as_bytes  (service, region/polygon)     *)
(*   SicarService.download_car_as_bytes      (service, property/CAR)       *)
(*                                                                         *)
(* The portal (captcha endpoint, download endpoints, search endpoint) and  *)
(* the OCR driver are the environment: each of their answers is drawn      *)
(* from a small set by the action that receives it.                        *)
(*                                                                         *)
(* Specifications:                                                         *)
(*   Spec           one client: construction, then one download            *)
(*   SpecCancel     Spec with a caller whose deadline may pass             *)
(*   SpecIso        two clients running downloads side by side             *)
(*   SpecNormalize  unwrapping of one export response, byte by byte        *)
(*   SpecNames      file name of a property archive in both variants       *)
(*   SpecParse      Sicar._parse_release_dates on one page                 *)
(*   SpecGate       requests through the middleware stack of the API       *)
(*   SpecJobs       background downloads and collections side by side      *)
(*   SpecService    jobs of download_polygon / download_property_by_car    *)
(*   SpecWrite      the archive file the library downloads write           *)
(*   SpecSched      the scheduled job, its configuration and restarts      *)
(*   SpecRelease    save_release_date from two database sessions           *)
(***************************************************************************)
EXTENDS Integers, Sequences, FiniteSets, TLC

\* ------------------------------------------------------------------ bounds
\* Largest value of the `tries` parameter of the library downloads.
MaxTries == 4
\* The `tries` argument of the two downloads that run side by side.
IsoTries == 2
\* Longest archive, in bytes, whose normalization is followed.
MaxPayload == 3
\* Longest CAR identifier, in characters, whose file names are compared.
MaxCarLen == 3
\* Largest number of state blocks in a release-dates page.
MaxBlocks == 2
\* Largest number of requests followed through the middleware stack.
MaxRequests == 2
\* Largest number of download tasks followed side by side.
MaxTasks == 2
\* Largest value of settings.sicar_max_retries checked.
MaxRetrySetting == 3
\* Largest number of DownloadJob rows followed.
MaxJobs == 3
\* Largest number of chunks of a streamed archive.
MaxChunks == 2
\* Largest `tries` of a library download that writes the output file.
MaxWriteTries == 2
\* Largest number of downloads written to one output path.
MaxWrites == 2
\* Largest number of save_release_date calls followed.
MaxSaves == 3

\* ------------------------------------------------------- program constants
\* max_retries of the two service loops.
max_retries == 25
\* Length a solved captcha must have to be submitted.
CaptchaLength == 5
\* Body length above which download_car_as_bytes accepts any content type.
MinValidLength == 1000

\* ------------------------------------------------------------- vocabulary
LibPolygon == "download_state"
LibCar     == "download_by_car_number"
SvcPolygon == "download_polygon_as_bytes"
SvcCar     == "download_car_as_bytes"

Lib        == {LibPolygon, LibCar}
Svc        == {SvcPolygon, SvcCar}
PolygonFns == {LibPolygon, SvcPolygon}
CarFns     == {LibCar, SvcCar}

\* Members of the State and Polygon enumerations, and the tokens a caller
\* may pass (one of them unknown to the enumeration).
States       == {"SP", "RJ"}
Polygons     == {"APPS"}
StateArgs    == {"SP", "XX"}
PolygonArgs  == {"APPS", "BOGUS"}

\* Internal property ids the search endpoint may answer with.
NoId        == "None"
InternalIds == {"id1", "id2"}

\* Captcha drivers: the OCR engine (any text), a stub that always answers
\* a four character text, and a scripted solver that reads the n-th image
\* served as a text of length Script[n] (of the last length past the end).
Drivers     == {"Tesseract", "FourCharStub", "Scripted"}
CaptchaLens == {0, 5, 6}
Script      == <<2, 4, 5, 5>>

\* Status value standing for "no response": the HTTP client raised a
\* transport-level error (timeout, connection reset) instead of answering.
NoResponse == 0

\* Content-Type header values, as token sequences ("" is the empty one).
ZipType      == <<"application", "/", "zip">>
OctetType    == <<"application", "/", "octet-stream">>
HtmlType     == <<"text", "/", "html">>
XZipType     == <<"application", "/", "x-", "zip", "-compressed">>
ContentTypes == { <<>>,
                  ZipType,
                  ZipType \o <<";", "charset=binary">>,
                  HtmlType,
                  <<"multipart", "/", "mixed", ";">> \o ZipType }

NoError   == "None"
NoContent == [kind |-> "none", size |-> 0]

\* Two client instances that run side by side, and the session cookies the
\* portal may set on a response.
Instances == {1, 2}
Cookies   == {"JSESSIONID=a", "JSESSIONID=b"}

\* ------------------------------------------------------ environment answers
\* Answers of the index page to the bootstrap GET of the constructor.
BootResponses == [status : {NoResponse, 200, 302, 500}]

\* Answers of the captcha endpoint.
CaptchaResponses ==
    [status : {NoResponse, 200, 302, 500}, decodable : BOOLEAN]

\* Answers of the region/polygon download endpoint (absent headers read as
\* Content-Length 0 and Content-Type ""). The headers of an answer that is
\* not a 200 are never read.
PolygonResponses ==
    [status : {NoResponse, 500}, content_length : {0}, content_type : {<<>>}]
    \cup [status : {200}, content_length : {0, 2048}, content_type : ContentTypes]

\* Bodies of the property export endpoint: a payload (a ZIP archive or an
\* HTML error page) of `size` bytes once unwrapped; the unwrapping itself
\* is followed byte by byte in SpecNormalize.
Bodies == [kind : {"zip", "html"}, size : {1000, 1001}]

\* Answers of the property export endpoint. Type and body of an answer
\* that is not a 200 are never read.
NoBody == [kind |-> "html", size |-> 1000]

ExportResponses ==
    [status : {NoResponse, 500}, content_type : {HtmlType}, body : {NoBody}]
    \cup [status : {200},
          content_type : {ZipType, OctetType, HtmlType, XZipType},
          body : Bodies]

\* Answers of the property search endpoint: a transport error, a rejected
\* status, or a feature collection (empty, or whose first feature has the
\* given id, NoId when the feature has none).
SearchResponses ==
    [status : {NoResponse, 200, 500}, features : {0, 1}, id : InternalIds \cup {NoId}]

\* ---------------------------------------------------------- pure helpers
StartsWith(s, p) == Len(s) >= Len(p) /\ SubSeq(s, 1, Len(p)) = p

Contains(s, p) ==
    \E i \in 0..Len(s) : i + Len(p) <= Len(s) /\ SubSeq(s, i + 1, i + Len(p)) = p

Return(v) == [raised |-> FALSE, exc |-> NoError, value |-> v]
Raise(e)  == [raised |-> TRUE, exc |-> e, value |-> NoContent]

\* ------------------------------------------------- functions of the client
\* A _get that takes a redirect (302) for a failure.
get_OkOnly(resp) ==
    IF resp.status = NoResponse THEN Raise("TransportError")
    ELSE IF resp.status # 200 THEN Raise("UrlNotOkException")
    ELSE Return(resp)

\* Sicar._get: the response, unless the client raised or the status is
\* neither 200 nor 302.
get(resp) ==
    IF resp.status = NoResponse THEN Raise("TransportError")
    ELSE IF resp.status \notin {200, 302} THEN Raise("UrlNotOkException")
    ELSE Return(resp)

\* A session shared by every instance (a module-level client).
create_session_Shared(created) == 1

\* Sicar._create_session: a new httpx.Client for the instance under
\* construction; `created` clients exist already.
create_session(created) == created + 1

\* Sicar._download_captcha: the image served for this fetch.
download_captcha(resp, image) ==
    LET r == get(resp) IN
    IF r.raised THEN r
    ELSE IF resp.status # 200 THEN Raise("FailedToDownloadCaptchaException")
    ELSE IF ~resp.decodable THEN Raise("FailedToDownloadCaptchaException")
    ELSE Return(image)

\* Captcha.get_captcha: the text the driver reads from an image. A text is
\* a sequence of characters; every character is tagged with the image it
\* was read from, so that texts of different images differ.
get_captcha(drv, image, len) ==
    IF drv = "FourCharStub" THEN [i \in 1..4 |-> image]
    ELSE IF drv = "Scripted"
    THEN [i \in 1..Script[IF image < Len(Script) THEN image ELSE Len(Script)]
             |-> image]
    ELSE [i \in 1..len |-> image]

\* A gate that lets every text of at least the required length through.
CaptchaValid_AtLeast(text) == Len(text) >= CaptchaLength

\* A gate that only turns away the empty text.
CaptchaValid_NonEmpty(text) == Len(text) > 0

\* The length gate of the four loops.
CaptchaValid(text) == Len(text) = CaptchaLength

\* The except clauses of the loops: which exceptions an attempt swallows.
Catches(f, e) ==
    IF f \in Lib
    THEN e \in {"FailedToDownloadCaptchaException", "FailedToDownloadPolygonException"}
    ELSE TRUE

\* A lookup that validates the region only and leaves the polygon token to
\* the portal.
TargetError_StateOnly(f, st, pg) ==
    IF st \notin States
    THEN (IF f \in Lib THEN "StateCodeNotValidException" ELSE "KeyError")
    ELSE NoError

\* State(...) / Polygon(...) lookups that precede the loops.
TargetError(f, st, pg) ==
    IF st \notin States
    THEN (IF f \in Lib THEN "StateCodeNotValidException" ELSE "KeyError")
    ELSE IF pg \notin Polygons
    THEN (IF f \in Lib THEN "PolygonNotValidException" ELSE "KeyError")
    ELSE NoError

\* A classification that forgets the Content-Type check.
download_polygon_NoTypeCheck(resp) ==
    IF resp.status = NoResponse THEN Raise("TransportError")
    ELSE IF resp.status # 200 THEN Raise("FailedToDownloadPolygonException")
    ELSE IF resp.content_length = 0 THEN Raise("FailedToDownloadPolygonException")
    ELSE Return([kind |-> "zip", size |-> resp.content_length])

\* Sicar._download_polygon: classification of the streamed response.
download_polygon(resp) ==
    IF resp.status = NoResponse THEN Raise("TransportError")
    ELSE IF resp.status # 200 THEN Raise("FailedToDownloadPolygonException")
    ELSE IF resp.content_length = 0 \/ ~StartsWith(resp.content_type, ZipType)
    THEN Raise("FailedToDownloadPolygonException")
    ELSE Return([kind |-> "zip", size |-> resp.content_length])

\* SicarService.download_polygon_as_bytes: classification of the response.
stream_polygon(resp) ==
    IF resp.status = NoResponse THEN Raise("TransportError")
    ELSE IF resp.status # 200 THEN Raise("HTTPStatus")
    ELSE IF resp.content_length = 0 THEN Raise("ContentLengthZero")
    ELSE IF ~StartsWith(resp.content_type, ZipType) THEN Raise("InvalidContentType")
    ELSE Return([kind |-> "zip", size |-> resp.content_length])

\* Unwrapping of a data:application/zip;base64, body; a raw body is kept.
decode_content(body) == [kind |-> body.kind, size |-> body.size]

\* A classification whose size test also accepts a body of exactly the
\* threshold length.
export_as_bytes_AtLeast(resp) ==
    IF resp.status = NoResponse THEN Raise("TransportError")
    ELSE IF resp.status # 200 THEN Raise("HTTPStatus")
    ELSE LET content == decode_content(resp.body) IN
         IF \/ Contains(resp.content_type, ZipType)
            \/ Contains(resp.content_type, OctetType)
            \/ content.size >= MinValidLength
         THEN Return(content)
         ELSE Raise("InvalidResponse")

\* SicarService.download_car_as_bytes: classification of the POST response.
export_as_bytes(resp) ==
    IF resp.status = NoResponse THEN Raise("TransportError")
    ELSE IF resp.status # 200 THEN Raise("HTTPStatus")
    ELSE LET content == decode_content(resp.body) IN
         IF \/ Contains(resp.content_type, ZipType)
            \/ Contains(resp.content_type, OctetType)
            \/ content.size > MinValidLength
         THEN Return(content)
         ELSE Raise("InvalidResponse")

\* Sicar.search_by_car_number: the first feature, or a generic Exception.
search_by_car_number(resp) ==
    LET r == get(resp) IN
    IF r.raised THEN Raise("Exception")
    ELSE IF resp.features > 0 THEN Return([id |-> resp.id])
    ELSE Raise("Exception")

\* Jitter sleeps (time.sleep(random() + random())) an attempt performs on
\* its way out, by the path it leaves the loop body on. The library sleeps
\* in `finally`, on every path; the service sleeps in the length-mismatch
\* branch and in the except clause, which download_polygon_as_bytes ends
\* with a second sleep.
JitterSleeps(f, path) ==
    IF f \in Lib THEN 1
    ELSE IF path = "success" THEN 0
    ELSE IF path = "mismatch" THEN 1
    ELSE IF f = SvcPolygon THEN 2
    ELSE 1

\* File names are sequences of pieces (characters or longer tokens).
\* str.replace(old, new) for one-character old and new.
Replace(s, old, new) == [i \in 1..Len(s) |-> IF s[i] = old THEN new ELSE s[i]]

\* Path.with_suffix: the suffix replaces the part of the name from its last
\* dot on, or is appended when the name has no dot after its first piece.
WithSuffix(name, suffix) ==
    LET dots == {i \in 2..Len(name) : name[i] = "."} IN
    IF dots = {} THEN name \o <<suffix>>
    ELSE SubSeq(name, 1, (CHOOSE i \in dots : \A j \in dots : j <= i) - 1)
             \o <<suffix>>

\* A name built from the polygon kind alone.
polygon_filename_KindOnly(f, st, pg) == <<pg, ".zip">>

\* Name of the archive of a region/polygon download.
polygon_filename(f, st, pg) ==
    IF f \in Lib THEN WithSuffix(<<st, "_", pg>>, ".zip")
    ELSE <<st, "_", pg, ".zip">>

\* Name of the archive of a property download.
car_filename(f, car) ==
    IF f \in Lib THEN Replace(car, "-", "_") \o <<".zip">>
    ELSE Replace(Replace(car, "-", "_"), "/", "_") \o <<".zip">>

\* CAR identifiers of at most MaxCarLen characters: letters and digits,
\* the dash of the official format, and a slash.
CarChars   == {"S", "1", "-", "/"}
CarNumbers == UNION {[1..n -> CarChars] : n \in 1..MaxCarLen}

\* The CAR identifier the property downloads are called with.
CarSample == <<"S", "P", "-", "1">>

\* ------------------------------------------------ response normalization
\* Bytes and characters are their codes (0..255): the response text of an
\* ASCII body is its bytes.
\* The literal "data:application/zip;base64,".
Prefix ==
    <<100, 97, 116, 97, 58, 97, 112, 112, 108, 105,
      99, 97, 116, 105, 111, 110, 47, 122, 105, 112,
      59, 98, 97, 115, 101, 54, 52, 44>>

\* The same literal ending in a semicolon instead of the comma.
NearPrefix == [i \in 1..Len(Prefix) |-> IF i = Len(Prefix) THEN 59 ELSE Prefix[i]]

\* The base64 alphabet A-Z a-z 0-9 + / and the padding character =.
B64Char(n) ==
    IF n < 26 THEN 65 + n
    ELSE IF n < 52 THEN 97 + (n - 26)
    ELSE IF n < 62 THEN 48 + (n - 52)
    ELSE IF n = 62 THEN 43 ELSE 47

IsB64(c)    == \E n \in 0..63 : B64Char(n) = c
B64Value(c) == CHOOSE n \in 0..63 : B64Char(n) = c

\* What the portal does to wrap an archive: standard base64 with padding.
RECURSIVE b64encode(_)
b64encode(b) ==
    IF Len(b) = 0 THEN <<>>
    ELSE IF Len(b) = 1
    THEN <<B64Char(b[1] \div 4), B64Char((b[1] % 4) * 16), 61, 61>>
    ELSE IF Len(b) = 2
    THEN <<B64Char(b[1] \div 4), B64Char((b[1] % 4) * 16 + b[2] \div 16),
           B64Char((b[2] % 16) * 4), 61>>
    ELSE <<B64Char(b[1] \div 4), B64Char((b[1] % 4) * 16 + b[2] \div 16),
           B64Char((b[2] % 16) * 4 + b[3] \div 64), B64Char(b[3] % 64)>>
         \o b64encode(SubSeq(b, 4, Len(b)))

\* base64.b64decode on a well-padded text: groups of four characters give
\* three bytes, or one or two before padding.
RECURSIVE decode_groups(_)
decode_groups(t) ==
    IF Len(t) < 4 THEN <<>>
    ELSE LET v1 == B64Value(t[1])
             v2 == B64Value(t[2]) IN
         IF t[3] = 61 THEN <<v1 * 4 + v2 \div 16>>
         ELSE LET v3 == B64Value(t[3]) IN
              IF t[4] = 61
              THEN <<v1 * 4 + v2 \div 16, (v2 % 16) * 16 + v3 \div 4>>
              ELSE <<v1 * 4 + v2 \div 16, (v2 % 16) * 16 + v3 \div 4,
                     (v3 % 4) * 64 + B64Value(t[4])>>
                   \o decode_groups(SubSeq(t, 5, Len(t)))

\* base64.b64decode (validate=False): characters outside the alphabet are
\* discarded before the groups are decoded.
b64decode(t) ==
    LET Keep(c) == IsB64(c) \/ c = 61 IN decode_groups(SelectSeq(t, Keep))

\* str.split(",", 1)[1]: everything after the first comma.
AfterFirstComma(t) ==
    LET k == CHOOSE i \in 1..Len(t) : t[i] = 44 /\ \A j \in 1..(i - 1) : t[j] # 44
    IN SubSeq(t, k + 1, Len(t))

\* A normalization that keeps every body as it is.
normalize_Raw(b) == b

\* The unwrapping of download_car_as_bytes and _download_property_shapefile.
normalize(b) ==
    IF StartsWith(b, Prefix) THEN b64decode(AfterFirstComma(b)) ELSE b

\* Archives of at most MaxPayload bytes, and the bodies the portal may send
\* for one: the archive itself, the archive as a data URL, the data URL
\* followed by a line break, and a text that only resembles the data URL.
PayloadBytes == {0, 75, 80, 255}
Payloads     == UNION {[1..n -> PayloadBytes] : n \in 0..MaxPayload}
BodiesOf(p)  == {p,
                 Prefix \o b64encode(p),
                 Prefix \o b64encode(p) \o <<10>>,
                 NearPrefix \o b64encode(p)}

\* ---------------------------------------------------- release-dates page
\* A state block as the parser sees it: the data-estado attribute of its
\* button (NoTag: no button, or no attribute) and the stripped text of its
\* date div (NoTag: no div).
NoTag      == "None"
BlockCodes == States \cup {"XX", NoTag}
BlockDates == {"01/02/2024", "03/04/2024", "", NoTag}
Blocks     == [code : BlockCodes, date : BlockDates]
Pages      == UNION {[1..n -> Blocks] : n \in 0..MaxBlocks}

\* A test that takes an empty date text for a date.
Qualifies_AnyText(b) == b.code \in States /\ b.date # NoTag

\* `state in iter(State) and date`.
Qualifies(b) == b.code \in States /\ b.date \notin {NoTag, ""}

\* state_dates[State(state)] = date, the dict being a set of pairs.
Put(dict, key, value) == {p \in dict : p[1] # key} \cup {<<key, value>>}

\* ------------------------------------------------------------ the HTTP API
\* Paths of the endpoints followed through the middleware stack.
DownloadsState == "/downloads/state"
DownloadsCar   == "/downloads/car"
ReleasesUpdate == "/releases/update"
SearchCar      == "/search/car/{car_number}"
DownloadPaths  == {DownloadsState, DownloadsCar}
Paths          == DownloadPaths \cup {ReleasesUpdate, SearchCar}

\* Addresses a request may carry or come from.
Localhost == {"127.0.0.1", "::1", "localhost"}
NoHeader  == ""
ListedIp  == "10.0.0.1"
ForeignIp == "203.0.113.9"
Peers     == {ListedIp, ForeignIp}

\* Values of the X-API-Key header, as character sequences: absent, the
\* configured key, a key that differs from it in the ninth character only,
\* and a key of eight characters.
NoKey         == <<>>
ShortKey      == <<"k", "e", "y", "-", "0", "0", "0", "1">>
ConfiguredKey == ShortKey \o <<"A">>
OtherKey      == ShortKey \o <<"B">>
PresentedKeys == {NoKey, ConfiguredKey, OtherKey, ShortKey}
Dots          == <<".", ".", ".">>

\* A request: its path, the three sources of the client address (the
\* X-Forwarded-For header as its comma-separated entries) and its key.
Requests ==
    [path : Paths,
     x_real_ip : {NoHeader, "127.0.0.1", ForeignIp},
     x_forwarded_for : {<<>>, <<ListedIp, ForeignIp>>},
     peer : Peers,
     x_api_key : PresentedKeys]

\* settings.allowed_ips after split(",") and strip(): no list, or one entry.
AllowedIpsSettings == {<<>>, <<ListedIp>>}
\* settings.api_key: unset, or set.
ApiKeySettings == {NoKey, ConfiguredKey}
\* settings.rate_limit_per_minute_downloads and
\* settings.max_concurrent_downloads of the deployments followed.
RateLimitSettings  == {1, 2}
ConcurrencySettings == {1, 2}

Range(s) == {s[i] : i \in DOMAIN s}

\* The client address taken from the peer address alone.
client_ip_PeerOnly(req) == req.peer

\* IPWhitelistMiddleware.dispatch, the client address: X-Real-IP, or the
\* first X-Forwarded-For entry, or the peer address, the first non-empty.
client_ip(req) ==
    IF req.x_real_ip # NoHeader THEN req.x_real_ip
    ELSE IF req.x_forwarded_for # <<>> /\ Head(req.x_forwarded_for) # NoHeader
         THEN Head(req.x_forwarded_for)
    ELSE req.peer

\* IPWhitelistMiddleware.dispatch: TRUE when the request is handed to
\* call_next, FALSE when it is answered 403.
whitelist_forwards(allowed, req) ==
    IF allowed = <<>> THEN TRUE
    ELSE IF client_ip(req) \in Localhost THEN TRUE
    ELSE IF client_ip(req) \notin Range(allowed) THEN FALSE
    ELSE TRUE

\* The dependencies=[...] of the route of a path.
Dependencies(path) ==
    IF path \in DownloadPaths \cup {ReleasesUpdate} THEN {"verify_api_key"}
    ELSE {}

\* The decorators above the endpoint function of a path, top one first.
Decorators(path) ==
    IF path = ReleasesUpdate THEN <<"app.route">>
    ELSE <<"limiter.limit", "app.route">>

\* Decorators apply from the bottom up and app.post / app.get registers the
\* function it is given and returns it unchanged: the registered function
\* is rate limited when a limiter.limit stands below the route decorator.
RouteLimited(path) ==
    \E i, j \in DOMAIN Decorators(path) :
        /\ Decorators(path)[i] = "app.route"
        /\ Decorators(path)[j] = "limiter.limit"
        /\ j > i

\* A key check that accepts every key that is presented.
verify_api_key_AnyKey(presented, configured) ==
    IF presented = NoKey THEN Raise("HTTP401")
    ELSE Return(presented)

\* auth.verify_api_key with auth.get_api_key: 401 without a key, ValueError
\* when no key is configured, 401 when the keys differ.
verify_api_key(presented, configured) ==
    IF presented = NoKey THEN Raise("HTTP401")
    ELSE IF configured = NoKey THEN Raise("ValueError")
    ELSE IF presented # configured THEN Raise("HTTP401")
    ELSE Return(presented)

\* A concurrency gate that closes only above the limit.
limit_reached_Above(running_count, limit) == running_count > limit

\* The concurrency gate of the download endpoints and of the service.
limit_reached(running_count, limit) == running_count >= limit

\* The body of main.download_state / main.download_by_car_number: the
\* answer, its Retry-After header (0: none), and whether a background task
\* was added.
download_endpoint(running_count, limit) ==
    IF limit_reached(running_count, limit)
    THEN [status |-> 429, retry_after |-> 60, scheduled |-> FALSE]
    ELSE [status |-> 202, retry_after |-> 0, scheduled |-> TRUE]

\* SicarService.search_property_by_car: the dict built from the feature
\* (nine keys, whatever the feature holds), or the exception re-raised.
search_property_by_car(resp) ==
    LET r == search_by_car_number(resp) IN
    IF r.raised THEN r
    ELSE Return([car_number |-> "given", internal_id |-> r.value.id])

\* main.search_property_by_car: SicarService(db), then the search; 404 for
\* an empty dict, 500 for every exception that is not an HTTPException.
search_endpoint(boot, resp) ==
    IF get(boot).raised THEN 500
    ELSE LET r == search_property_by_car(resp) IN
         IF r.raised THEN 500
         ELSE IF DOMAIN r.value = {} THEN 404
         ELSE 200

\* An api_key field that holds the key as presented.
audit_api_key_Whole(key) == key

\* audit_logging.log_request, the api_key field of the entry: the first
\* eight characters and "...", or None (NoKey) for an absent or short key.
audit_api_key(key) ==
    IF key # NoKey /\ Len(key) > 8 THEN SubSeq(key, 1, 8) \o Dots
    ELSE NoKey

\* --------------------------------------------------- background downloads
\* settings.min_disk_space_gb.
min_disk_space_gb == 10

\* shutil.disk_usage of the download folder: it raises, or reports the free
\* space (in whole GB).
DiskStates ==
    {[readable |-> FALSE, free_gb |-> 0]} \cup [readable : {TRUE}, free_gb : {9, 10}]

\* SicarService.check_disk_space: has_space, False when disk_usage raised.
check_disk_space(d) ==
    [has_space |-> d.readable /\ d.free_gb >= min_disk_space_gb]

\* What runs a download: the background task of POST /downloads/state, the
\* one of POST /downloads/car, the scheduler's daily collection.
TaskKinds    == {"state", "car", "collection"}
RequestKinds == {"state", "car"}

\* A task slot nothing has been put in yet.
NoTask == [pc |-> "none", kind |-> "-", response |-> 0, portal |-> 0, job |-> "none"]

\* ------------------------------------------- download jobs of the service
\* A column that holds no value.
NULL == "NULL"

\* The local retry_count of a call before `retry_count = 0` has run
\* ('retry_count' in locals() is false).
Unbound == -1

\* Values of settings.sicar_max_retries the runs are checked for.
RetrySettings == 1..MaxRetrySetting

\* What a job is for: a polygon of a state, or a property by CAR number.
Targets == {"polygon", "car"}

\* Members of the Polygon enumeration, and a name that is none.
PolygonEnum == {"APPS", "LEGAL_RESERVE"}
PolygonSettings == {<<"APPS", "LEGAL_RESERVE">>, <<"APPS", "RESERVA">>}

\* Exception messages, as their words in order.
ReturnedFalse  == <<"Download", "retornou", "False">>
ReadTimeout    == <<"The", "read", "operation", "timed", "out">>
ConnectTimeout == <<"Connect", "Timeout">>
Disconnected   == <<"Server", "disconnected", "timed", "and", "out">>
LibraryErrors  == {ReadTimeout, ConnectTimeout, Disconnected}
TimeoutMessages == {ReadTimeout, ConnectTimeout}

\* What one call of the library download gives the service: a path whose
\* file exists, False (or a path without a file), or an exception.
LibraryResults ==
    {[kind |-> "path", msg |-> <<>>], [kind |-> "false", msg |-> ReturnedFalse]}
    \cup {[kind |-> "raise", msg |-> m] : m \in LibraryErrors}

\* What the two checks ahead of a download find.
GateResults == {"ok", "limit", "disk"}

\* str.lower on one word.
lower(w) ==
    CASE w = "Timeout" -> "timeout"
      [] w = "The" -> "the"
      [] w = "Connect" -> "connect"
      [] w = "Server" -> "server"
      [] w = "Download" -> "download"
      [] w = "False" -> "false"
      [] OTHER -> w

\* Every failure is taken for a timeout.
is_timeout_AnyError(msg) == TRUE

\* "timeout" in error_msg.lower() or "timed out" in error_msg.lower()
is_timeout(msg) ==
    \/ \E i \in 1..Len(msg) : lower(msg[i]) = "timeout"
    \/ \E i \in 1..(Len(msg) - 1) :
          lower(msg[i]) = "timed" /\ lower(msg[i + 1]) = "out"

\* DataRepository.create_download_job / create_download_job_car: the row
\* of a new job.
create_download_job(target) ==
    [target |-> target, status |-> "pending", retry_count |-> 0,
     file_path |-> NULL, file_size |-> NULL]

\* DataRepository.get_download_by_car_number: the most recent job of the
\* CAR number (0: none).
get_download_by_car_number(rows) ==
    LET mine == {i \in 1..Len(rows) : rows[i].target = "car"} IN
    IF mine = {} THEN 0 ELSE CHOOSE i \in mine : \A k \in mine : k <= i

\* The job of a download that gave a file.
completed_job(job) ==
    [job EXCEPT !.status = "completed", !.file_path = "path",
                !.file_size = "size"]

\* The handler that records the count and leaves the status alone.
failed_job_StatusKept(job, count) ==
    [job EXCEPT !.retry_count = IF count # Unbound THEN count ELSE @ + 1]

\* The outer `except Exception` of a download call, for the job it created.
failed_job(job, count) ==
    [job EXCEPT !.status = "failed",
                !.retry_count = IF count # Unbound THEN count ELSE @ + 1]

\* The check that looks at the latest job whatever `force` says.
already_downloaded_ForceIgnored(rows, force) ==
    LET existing == get_download_by_car_number(rows) IN
    existing # 0 /\ rows[existing].status = "completed"

\* `if not force:` ... `if existing and existing.status == "completed"`
already_downloaded(rows, force) ==
    /\ ~force
    /\ LET existing == get_download_by_car_number(rows) IN
       existing # 0 /\ rows[existing].status = "completed"

\* No service call in progress.
NoCall ==
    [op |-> "none", pc |-> "idle", force |-> FALSE, gate |-> "-", job |-> 0,
     retry_count |-> Unbound, calls |-> 0, failed |-> 0, last_error |-> <<>>]

\* No collection run yet.
NoCollection ==
    [pc |-> "idle", index |-> 0, jobs |-> <<>>, created |-> {},
     total_jobs |-> 0, successful_jobs |-> 0, failed_jobs |-> 0]

\* sum(1 for j in jobs if j.status == s)
CountStatus(rows, jobs, s) ==
    Cardinality({i \in 1..Len(jobs) : rows[jobs[i]].status = s})

\* ------------------------------------------ the archive at the output path
\* No file at the output path.
NoFile == [exists |-> FALSE, chunks |-> <<>>]

\* The chunks response.iter_bytes() has to deliver, in order.
Streams == {[i \in 1..n |-> i] : n \in 1..MaxChunks}

\* The library functions that write the archive.
Writers == {"_download_polygon", "_download_property_shapefile"}

\* open(path, "ab"): what the file held stays.
open_wb_Append(file) == [file EXCEPT !.exists = TRUE]
\* open(path, "wb"): the file exists and is empty, whatever it held.
open_wb(file) == [exists |-> TRUE, chunks |-> <<>>]

\* No library download in progress.
NoWrite ==
    [writer |-> "-", pc |-> "idle", tries |-> 0, before |-> NoFile,
     attempt_before |-> NoFile, incoming |-> <<>>, last |-> "-",
     ended |-> "-", number |-> 0]

\* ------------------------------------------------ the scheduler and its jobs
\* An argument that was not given, an attribute that holds nothing: None
\* where a text or a time is expected, Absent where an integer is, and the
\* empty expression.
None == "None"
Absent == -1
NoExpression == <<>>

\* settings.schedule_hour and settings.schedule_minute.
schedule_hour == 2
schedule_minute == 0

\* The weekday names of APScheduler in the order of its weekday numbers
\* (0 is Monday).
WEEKDAYS == <<"mon", "tue", "wed", "thu", "fri", "sat", "sun">>

\* valid_days of the reschedule endpoint.
valid_days == {"mon", "tue", "wed", "thu", "fri", "sat", "sun"}

\* f"{n}" of an integer: its decimal text; int(s): the integer a decimal
\* text stands for.
format_int(n) == ToString(n)
parse_int(s) == CHOOSE n \in 0..59 : ToString(n) = s

\* day_map of the reschedule endpoint: 'sun': '0', 'mon': '1', ... 'sat': '6'.
day_map(d) ==
    IF d = "sun" THEN format_int(0)
    ELSE format_int(CHOOSE i \in 1..7 : WEEKDAYS[i] = d)

\* The day_of_week field of a CronTrigger, as the weekday numbers it fires
\* on: a name or a number stands for its position in WEEKDAYS, nothing
\* for every day.
weekday_field(day_of_week) ==
    IF day_of_week = None THEN 0..6
    ELSE IF day_of_week \in valid_days
    THEN {(CHOOSE i \in 1..7 : WEEKDAYS[i] = day_of_week) - 1}
    ELSE {parse_int(day_of_week)}

\* CronTrigger(second=, minute=, hour=, day_of_week=): a field left out
\* below the least significant one given is its minimum.
CronTrigger(second, minute, hour, day_of_week) ==
    [type |-> "cron", day_of_week |-> weekday_field(day_of_week),
     hour |-> hour, minute |-> minute,
     second |-> IF second = Absent THEN 0 ELSE second]

\* IntervalTrigger(hours=, minutes=)
IntervalTrigger(hours, minutes) ==
    [type |-> "interval", minutes |-> hours * 60 + minutes]

\* When a trigger fires: weekday, hour and minute, or the interval.
Firing(trigger) ==
    IF trigger.type = "cron"
    THEN <<trigger.day_of_week, trigger.hour, trigger.minute>>
    ELSE IF trigger.type = "interval" THEN <<trigger.minutes>>
    ELSE <<>>

\* The job is not in the scheduler; no configuration is persisted.
NoTrigger == [type |-> "none"]
NoJob == [trigger |-> NoTrigger, next_run_time |-> None]
NoConfig == [is_active |-> FALSE, trigger_type |-> None,
             cron_expression |-> NoExpression, interval_minutes |-> Absent]

\* int(part) if part != '*' else None
cron_part(part) == IF part = "*" THEN Absent ELSE parse_int(part)

\* The configuration _create_default_configs persists for the collection
\* job.
default_config ==
    [is_active |-> TRUE, trigger_type |-> "cron",
     cron_expression |-> <<format_int(0), format_int(schedule_minute),
                           format_int(schedule_hour), "*", "*", "*">>,
     interval_minutes |-> Absent]

\* TaskScheduler._configure_job_from_db: the job as added to the scheduler.
_configure_job_from_db(config) ==
    IF config.trigger_type = "cron" /\ config.cron_expression # NoExpression
    THEN IF Len(config.cron_expression) = 6
         THEN LET parts == config.cron_expression IN
              [trigger |-> CronTrigger(cron_part(parts[1]), cron_part(parts[2]),
                                       cron_part(parts[3]),
                                       IF parts[6] # "*" THEN parts[6] ELSE None),
               next_run_time |-> IF config.is_active THEN "set" ELSE None]
         ELSE NoJob
    ELSE IF config.trigger_type = "interval" /\ config.interval_minutes > 0
    THEN [trigger |-> IntervalTrigger(0, config.interval_minutes),
          next_run_time |-> IF config.is_active THEN "set" ELSE None]
    ELSE NoJob

\* TaskScheduler.get_jobs: the `paused` of the job.
get_jobs_paused(job, config) ==
    IF config # NoConfig THEN ~config.is_active ELSE job.next_run_time = None

\* Bodies of POST /scheduler/jobs/{job_id}/reschedule.
Hours   == {0, 14}
Minutes == {0, 30}
RescheduleRequests ==
    [schedule_type : {"daily"}, hour : Hours, minute : Minutes,
     day_of_week : {None}, interval_hours : {Absent},
     interval_minutes : {Absent}]
    \cup [schedule_type : {"weekly"}, hour : Hours, minute : Minutes,
          day_of_week : valid_days \cup {None}, interval_hours : {Absent},
          interval_minutes : {Absent}]
    \cup [schedule_type : {"interval"}, hour : {0}, minute : {0},
          day_of_week : {None}, interval_hours : {Absent, 1},
          interval_minutes : {Absent, 30}]

\* `x or 0` for an optional integer.
or_zero(x) == IF x = Absent THEN 0 ELSE x

\* The validations of the reschedule endpoint (those that answer 400).
valid_request(req) ==
    /\ req.schedule_type \in {"daily", "weekly", "interval"}
    /\ req.schedule_type \in {"daily", "weekly"}
          => (0 <= req.hour /\ req.hour <= 23 /\ 0 <= req.minute /\ req.minute <= 59)
    /\ req.schedule_type = "weekly" => req.day_of_week \in valid_days
    /\ req.schedule_type = "interval"
          => or_zero(req.interval_hours) + or_zero(req.interval_minutes) > 0

\* TaskScheduler.reschedule_job_advanced: the trigger it installs.
reschedule_job_advanced(req) ==
    IF req.schedule_type = "daily"
    THEN CronTrigger(Absent, req.minute, req.hour, None)
    ELSE IF req.schedule_type = "weekly"
    THEN CronTrigger(Absent, req.minute, req.hour, req.day_of_week)
    ELSE IntervalTrigger(or_zero(req.interval_hours), or_zero(req.interval_minutes))

\* The configuration the reschedule endpoint persists.
reschedule_config(req, is_active) ==
    IF req.schedule_type = "daily"
    THEN [is_active |-> is_active, trigger_type |-> "cron",
          cron_expression |-> <<format_int(0), format_int(req.minute),
                                format_int(req.hour), "*", "*", "*">>,
          interval_minutes |-> Absent]
    ELSE IF req.schedule_type = "weekly"
    THEN [is_active |-> is_active, trigger_type |-> "cron",
          cron_expression |-> <<format_int(0), format_int(req.minute),
                                format_int(req.hour), "*", "*",
                                day_map(req.day_of_week)>>,
          interval_minutes |-> Absent]
    ELSE [is_active |-> is_active, trigger_type |-> "interval",
          cron_expression |-> NoExpression,
          interval_minutes |-> or_zero(req.interval_hours) * 60
                               + or_zero(req.interval_minutes)]

\* ------------------------------------------------- the state_releases table
\* Database sessions that call save_release_date side by side.
Savers == 1..2

\* Release dates as the portal gives them.
ReleaseDates == {"01/02/2024", "03/04/2024"}

\* The row of a state in the table (0: none).
release_row(rows, st) ==
    IF \E i \in 1..Len(rows) : rows[i].state = st
    THEN CHOOSE i \in 1..Len(rows) : rows[i].state = st
    ELSE 0

\* A session that is not in a call.
NoSave == [pc |-> "idle", state |-> "-", release_date |-> "-", existing |-> 0,
           id |-> 0]

\* No call for a state yet.
NoSaves == [begun |-> 0, ended |-> 0, release_date |-> "-", raised |-> FALSE]

\* ------------------------------------------------------------------ state
VARIABLES
    driver,        \* the captcha driver the client was constructed with
    fn,            \* the download function called ("none" before the call)
    state,         \* its region argument        (region/polygon downloads)
    polygon,       \* its polygon-kind argument  (region/polygon downloads)
    budget,        \* the attempts allowed: `tries` as passed, or max_retries
    pc,            \* position: idle, pre, loop, request, fallback, done
    tries,         \* library loops: attempts left
    retry_count,   \* service loops: attempts consumed
    last_error,    \* service loops: last exception caught
    captcha,       \* the captcha text variable of the loop
    internal_id,   \* property downloads: id resolved by the search
    outcome,       \* none, return, false, raise
    error,         \* the exception the call raised
    carried,       \* the last_error named in the exhaustion message
    carriedCount,  \* the attempt count named in the exhaustion message
    result,        \* the content written to disk / returned as bytes
    \* observations of the run (what a counting mock transport would see)
    ended,         \* how the call ended: precondition, success, propagated, exhausted
    attempts,      \* loop iterations started
    fetches,       \* captcha fetches issued
    requests,      \* protected download requests issued
    searches,      \* property search requests issued
    sent,          \* protected requests issued in the current attempt
    solvedThis,    \* the driver answered in the current attempt
    usedIds,       \* internal ids carried by protected requests of the call
    mismatchLast,  \* the latest failed attempt failed the length gate
    lastExc,       \* last exception raised inside an attempt
    sleepsThis,    \* jitter sleeps since the current attempt started
    gated,         \* attempts whose solved text had length 5
    fetchFailed,   \* some captcha fetch of the call failed
    \* the client instance and the caller
    bootstraps,    \* bootstrap GETs to the index URL issued by the constructor
    car_number,    \* the CAR identifier argument   (property downloads)
    filename,      \* name of the file written / returned on success
    cancelled,     \* the caller has asked for the call to be abandoned
    \* two clients side by side
    sessions,      \* per instance: the httpx.Client it created (0: none yet)
    jars,          \* per httpx.Client: the cookie its jar holds
    iso_pc,        \* per instance: new, loop, done
    iso_tries,     \* per instance: attempts left of its download
    \* normalization of one export response
    payload,       \* the archive bytes the portal has to deliver
    body,          \* response.content / response.text as received
    decoded,       \* the bytes kept after normalization
    normalized,    \* the normalization has run
    \* naming of one property archive by both variants
    car_id,        \* the CAR identifier given to both variants
    lib_name,      \* file name of Sicar._download_property_shapefile
    svc_name,      \* file name of SicarService.download_car_as_bytes
    named,         \* both names have been derived
    \* parsing of one release-dates page
    blocks,        \* the listagem-estados blocks of the page, in order
    block_i,       \* index of the next block the loop visits
    state_dates,   \* the dict under construction, as (region, date) pairs
    parsed,        \* _parse_release_dates has returned state_dates
    \* settings of the API deployment
    allowed_ips,   \* settings.allowed_ips, as the list of its entries
    api_key,       \* settings.api_key (NoKey: not configured)
    rate_limit_per_minute_downloads,
    max_concurrent_downloads,
    \* one request after the other through the middleware stack
    request,       \* the request being served, or served last
    gate_pc,       \* idle, whitelist, route, endpoint, log
    forwarded,     \* IPWhitelistMiddleware handed the request on: -, yes, no
    status,        \* status code of the response (0: none yet)
    retry_after,   \* its Retry-After header (0: none)
    handler_ran,   \* the body of the endpoint function was entered
    scheduled_this,\* the request added a background task
    seen_running,  \* count_running_downloads() as the endpoint read it (-1: not read)
    searched,      \* what the portal's search gave: -, match, nomatch, failure
    received,      \* requests received
    audit_count,   \* entries written to the audit log
    audit_entry,   \* the entry written last
    window,        \* per download path and peer: calls of the endpoint this minute
    \* downloads running in background tasks and in the scheduler
    tasks,         \* per task: position, kind, answer to its request, portal requests sent, job status
    disk,          \* what shutil.disk_usage gives
    answered,      \* status code answered to the latest download request
    \* download jobs of the service
    sicar_max_retries,      \* settings.sicar_max_retries
    auto_download_polygons, \* settings.auto_download_polygons, as a list
    download_jobs, \* the DownloadJob rows, in the order of their creation
    call,          \* the download call of the service in progress
    collection,    \* the run of execute_daily_collection in progress
    \* the archive at one output path
    destination,   \* the file at the path: absent, or its chunks
    writing,       \* the library download in progress
    \* the scheduled job
    scheduler_job, \* the job in the scheduler: trigger and next run time
    job_config,    \* its JobConfiguration row
    sched_response,\* status code of the latest scheduler request (0: none)
    installed,     \* the trigger the latest reschedule request installed
    \* release dates
    state_releases,\* the StateRelease rows
    savers,        \* per session: its call of save_release_date
    saves,         \* per state: the calls begun and ended last
    save_count     \* calls begun

isoVars  == <<sessions, jars, iso_pc, iso_tries>>
normVars == <<payload, body, decoded, normalized>>
nameVars == <<car_id, lib_name, svc_name, named>>
parseVars == <<blocks, block_i, state_dates, parsed>>
settingVars == <<allowed_ips, api_key, rate_limit_per_minute_downloads,
                 max_concurrent_downloads>>
gateVars == <<request, gate_pc, forwarded, status, retry_after, handler_ran,
              scheduled_this, seen_running, searched, received, audit_count,
              audit_entry, window>>
jobVars  == <<tasks, disk, answered>>
apiVars  == <<settingVars, gateVars, jobVars>>
serviceVars == <<sicar_max_retries, auto_download_polygons, download_jobs,
                 call, collection>>
writeVars == <<destination, writing>>
schedVars == <<scheduler_job, job_config, sched_response, installed>>
releaseVars == <<state_releases, savers, saves, save_count>>
sysVars  == <<serviceVars, writeVars, schedVars, releaseVars>>
oldAuxVars == <<isoVars, normVars, nameVars, parseVars, apiVars>>
auxVars  == <<oldAuxVars, sysVars>>
envVars  == <<driver, bootstraps, cancelled, auxVars>>
callVars == <<envVars, fn, state, polygon, car_number, budget>>
loopVars == <<tries, retry_count, last_error, captcha, internal_id>>
endVars  == <<pc, outcome, error, carried, carriedCount, result, filename, ended>>
obsVars  == <<attempts, fetches, gated, fetchFailed, requests, searches, sent,
              solvedThis, usedIds, mismatchLast, lastExc, sleepsThis>>
mainVars == <<driver, bootstraps, cancelled, fn, state, polygon, car_number,
              budget, loopVars, endVars, obsVars>>
vars     == <<callVars, loopVars, endVars, obsVars>>

\* The two instances of the side-by-side runs, before their construction.
IsoRest ==
    /\ sessions = [i \in Instances |-> 0]
    /\ jars = [c \in 1..Cardinality(Instances) |-> "none"]
    /\ iso_pc = [i \in Instances |-> "new"]
    /\ iso_tries = [i \in Instances |-> 0]

\* The side-by-side variables while a single instance is followed.
IsoIdle ==
    sessions = 0 /\ jars = 0 /\ iso_pc = 0 /\ iso_tries = 0

\* The normalization variables while no single response is followed.
NormIdle ==
    payload = 0 /\ body = 0 /\ decoded = 0 /\ normalized = 0

\* The naming variables while no identifier is followed through both
\* variants.
NameIdle ==
    car_id = 0 /\ lib_name = 0 /\ svc_name = 0 /\ named = 0

\* The parser variables while no page is followed.
ParseIdle ==
    blocks = 0 /\ block_i = 0 /\ state_dates = 0 /\ parsed = 0

\* The settings while the API is not followed.
SettingsIdle ==
    /\ allowed_ips = 0 /\ api_key = 0
    /\ rate_limit_per_minute_downloads = 0 /\ max_concurrent_downloads = 0

\* The request variables while no request is followed.
GateIdle ==
    /\ request = 0 /\ gate_pc = 0 /\ forwarded = 0 /\ status = 0
    /\ retry_after = 0 /\ handler_ran = 0 /\ scheduled_this = 0
    /\ seen_running = 0 /\ searched = 0 /\ received = 0 /\ audit_count = 0
    /\ audit_entry = 0 /\ window = 0

\* The task variables while no background download is followed.
JobIdle ==
    tasks = 0 /\ disk = 0 /\ answered = 0

ApiIdle == SettingsIdle /\ GateIdle /\ JobIdle

\* The job variables while no service call is followed.
ServiceIdle ==
    /\ sicar_max_retries = 0 /\ auto_download_polygons = 0
    /\ download_jobs = 0 /\ call = 0 /\ collection = 0

\* The file variables while no output path is followed.
WriteIdle ==
    destination = 0 /\ writing = 0

\* The scheduler variables while no scheduled job is followed.
SchedIdle ==
    /\ scheduler_job = 0 /\ job_config = 0 /\ sched_response = 0
    /\ installed = 0

\* The release variables while no save is followed.
ReleaseIdle ==
    state_releases = 0 /\ savers = 0 /\ saves = 0 /\ save_count = 0

SysIdle == ServiceIdle /\ WriteIdle /\ SchedIdle /\ ReleaseIdle

\* No client constructed, no download called.
MainRest ==
    /\ fn = "none" /\ state = "-" /\ polygon = "-" /\ budget = 0
    /\ car_number = <<>>
    /\ pc = "new" /\ bootstraps = 0 /\ cancelled = FALSE
    /\ tries = 0 /\ retry_count = 0 /\ last_error = NoError
    /\ captcha = <<>> /\ internal_id = NoId
    /\ outcome = "none" /\ error = NoError
    /\ carried = NoError /\ carriedCount = 0 /\ result = NoContent
    /\ ended = "no"
    /\ attempts = 0 /\ fetches = 0 /\ requests = 0 /\ searches = 0
    /\ sent = <<>> /\ solvedThis = FALSE /\ usedIds = {}
    /\ mismatchLast = FALSE /\ lastExc = NoError
    /\ sleepsThis = 0 /\ gated = 0 /\ fetchFailed = FALSE
    /\ filename = <<>>

Init ==
    /\ driver \in Drivers
    /\ MainRest /\ ApiIdle /\ SysIdle
    /\ IsoIdle /\ NormIdle /\ NameIdle /\ ParseIdle

\* The name under which a successful call stores or returns its archive.
OutputName ==
    IF fn \in PolygonFns THEN polygon_filename(fn, state, polygon)
    ELSE car_filename(fn, car_number)

\* ------------------------------------------------- outcomes of an attempt
\* An exception e leaves the try block of the loop body.
\* Library: `finally` consumes the attempt; e is swallowed only if caught.
\* Service: `except Exception` records e and consumes the attempt.
AttemptRaised(e) ==
    /\ mismatchLast' = FALSE /\ lastExc' = e
    /\ sleepsThis' = JitterSleeps(fn, "raised")
    /\ IF fn \in Lib
       THEN /\ tries' = tries - 1
            /\ UNCHANGED <<retry_count, last_error>>
       ELSE /\ retry_count' = retry_count + 1
            /\ last_error' = e
            /\ UNCHANGED tries
    /\ IF Catches(fn, e)
       THEN pc' = "loop" /\ UNCHANGED <<outcome, error, ended>>
       ELSE pc' = "done" /\ outcome' = "raise" /\ error' = e /\ ended' = "propagated"
    /\ UNCHANGED <<carried, carriedCount, result, filename>>

\* A length mismatch that is recorded in last_error like an exception.
AttemptInvalidCaptcha_Recorded ==
    /\ mismatchLast' = TRUE /\ UNCHANGED lastExc
    /\ sleepsThis' = JitterSleeps(fn, "mismatch")
    /\ IF fn \in Lib
       THEN tries' = tries - 1 /\ UNCHANGED <<retry_count, last_error>>
       ELSE /\ retry_count' = retry_count + 1 /\ UNCHANGED tries
            /\ last_error' = "CaptchaLengthMismatch"
    /\ pc' = "loop"
    /\ UNCHANGED <<outcome, error, ended, carried, carriedCount, result, filename>>

\* The solved text does not have the required length: the attempt is
\* consumed, no exception is involved and last_error is left alone.
AttemptInvalidCaptcha ==
    /\ mismatchLast' = TRUE /\ UNCHANGED lastExc
    /\ sleepsThis' = JitterSleeps(fn, "mismatch")
    /\ IF fn \in Lib
       THEN tries' = tries - 1 /\ UNCHANGED retry_count
       ELSE retry_count' = retry_count + 1 /\ UNCHANGED tries
    /\ pc' = "loop"
    /\ UNCHANGED <<last_error, outcome, error, ended, carried, carriedCount, result, filename>>

\* The attempt succeeded with `content`: the call returns (the library's
\* `finally` still decrements tries on the way out).
AttemptSucceeded(content) ==
    /\ result' = content /\ filename' = OutputName
    /\ outcome' = "return" /\ ended' = "success" /\ pc' = "done"
    /\ sleepsThis' = JitterSleeps(fn, "success")
    /\ IF fn \in Lib THEN tries' = tries - 1 ELSE UNCHANGED tries
    /\ UNCHANGED <<retry_count, last_error, error, carried, carriedCount,
                   mismatchLast, lastExc>>

\* A protected request as the portal sees it.
Request(method, target, base) ==
    [method |-> method, captcha |-> captcha, target |-> target, base |-> base]

\* ---------------------------------------------------------------- actions
\* Sicar.__init__ (reached from SicarService.__init__): the driver and the
\* session are created and _initialize_cookies issues one GET to the index
\* URL through _get. An exception leaves the constructor: there is no
\* instance to call anything on.
Construct(resp) ==
    /\ pc = "new"
    /\ bootstraps' = bootstraps + 1
    /\ pc' = (IF get(resp).raised THEN "dead" ELSE "idle")
    /\ UNCHANGED <<driver, cancelled, auxVars, fn, state, polygon, car_number,
                   budget, loopVars, outcome, error, carried, carriedCount, result,
                   filename, ended, obsVars>>

\* The caller invokes one of the four downloads.
Budgets(f) == IF f \in Lib THEN 0..MaxTries ELSE {max_retries}

Call(f, st, pg, n) ==
    /\ pc = "idle"
    /\ fn' = f /\ state' = st /\ polygon' = pg /\ budget' = n
    /\ car_number' = (IF f \in CarFns THEN CarSample ELSE <<>>)
    /\ tries' = (IF f \in Lib THEN n ELSE 0)
    /\ pc' = "pre"
    /\ UNCHANGED <<envVars, retry_count, last_error, captcha, internal_id,
                   outcome, error, carried, carriedCount, result, filename,
                   ended, obsVars>>

\* Region/polygon downloads: the enum lookups before the loop.
ValidateTarget ==
    /\ pc = "pre" /\ fn \in PolygonFns
    /\ LET e == TargetError(fn, state, polygon) IN
       IF e # NoError
       THEN pc' = "done" /\ outcome' = "raise" /\ error' = e /\ ended' = "precondition"
       ELSE pc' = "loop" /\ UNCHANGED <<outcome, error, ended>>
    /\ UNCHANGED <<callVars, loopVars, carried, carriedCount, result, filename, obsVars>>

\* Property downloads: the search that resolves the internal id, and the
\* check that an id was found, before the loop.
ResolveProperty(resp) ==
    /\ pc = "pre" /\ fn \in CarFns
    /\ searches' = searches + 1
    /\ LET r == search_by_car_number(resp) IN
       IF r.raised
       THEN /\ pc' = "done" /\ outcome' = "raise" /\ error' = r.exc
            /\ ended' = "precondition"
            /\ UNCHANGED internal_id
       ELSE /\ internal_id' = r.value.id
            /\ IF r.value.id = NoId
               THEN pc' = "done" /\ outcome' = "raise" /\ error' = "Exception"
                    /\ ended' = "precondition"
               ELSE pc' = "loop" /\ UNCHANGED <<outcome, error, ended>>
    /\ UNCHANGED <<callVars, tries, retry_count, last_error, captcha,
                   carried, carriedCount, result, filename,
                   attempts, fetches, gated, fetchFailed, requests, sent,
                   solvedThis, usedIds, mismatchLast, lastExc, sleepsThis>>

\* Loop conditions that admit one more iteration.
Continue_Inclusive ==
    IF fn \in Lib THEN tries >= 0 ELSE retry_count <= max_retries

\* The loop conditions: `while tries > 0` / `while retry_count < max_retries`.
Continue == IF fn \in Lib THEN tries > 0 ELSE retry_count < max_retries

\* An iteration that, when the fetch fails, goes on with the text left in
\* the captcha variable by an earlier attempt if that text passes the gate.
FetchCaptcha_Stale(resp, len) ==
    /\ pc = "loop" /\ Continue
    /\ attempts' = attempts + 1
    /\ fetches' = fetches + 1
    /\ sent' = <<>>
    /\ LET r == download_captcha(resp, fetches + 1) IN
       IF r.raised /\ ~CaptchaValid(captcha)
       THEN /\ AttemptRaised(r.exc)
            /\ solvedThis' = FALSE
            /\ fetchFailed' = TRUE
            /\ UNCHANGED <<captcha, gated>>
       ELSE LET text == IF r.raised THEN captcha
                        ELSE get_captcha(driver, r.value, len) IN
            /\ captcha' = text
            /\ solvedThis' = TRUE
            /\ gated' = (IF Len(text) = 5 THEN gated + 1 ELSE gated)
            /\ fetchFailed' = (fetchFailed \/ r.raised)
            /\ IF CaptchaValid(text)
               THEN /\ pc' = "request"
                    /\ sleepsThis' = 0
                    /\ UNCHANGED <<tries, retry_count, last_error, outcome, error,
                                   ended, carried, carriedCount, result, filename,
                                   mismatchLast, lastExc>>
               ELSE AttemptInvalidCaptcha
    /\ UNCHANGED <<callVars, internal_id, requests, searches, usedIds>>

\* Top of an iteration: fetch a captcha image, have the driver read it and
\* apply the length gate.
FetchCaptcha(resp, len) ==
    /\ pc = "loop" /\ Continue
    /\ attempts' = attempts + 1
    /\ fetches' = fetches + 1
    /\ sent' = <<>>
    /\ LET r == download_captcha(resp, fetches + 1) IN
       IF r.raised
       THEN /\ AttemptRaised(r.exc)
            /\ solvedThis' = FALSE
            /\ fetchFailed' = TRUE
            /\ UNCHANGED <<captcha, gated>>
       ELSE LET text == get_captcha(driver, r.value, len) IN
            /\ captcha' = text
            /\ solvedThis' = TRUE
            /\ gated' = (IF Len(text) = 5 THEN gated + 1 ELSE gated)
            /\ fetchFailed' = (fetchFailed \/ r.raised)
            /\ IF CaptchaValid(text)
               THEN /\ pc' = "request"
                    /\ sleepsThis' = 0
                    /\ UNCHANGED <<tries, retry_count, last_error, outcome, error,
                                   ended, carried, carriedCount, result, filename,
                                   mismatchLast, lastExc>>
               ELSE AttemptInvalidCaptcha
    /\ UNCHANGED <<callVars, internal_id, requests, searches, usedIds>>

\* Sicar.download_state: the protected GET of Sicar._download_polygon.
RequestPolygon(resp) ==
    /\ pc = "request" /\ fn = LibPolygon
    /\ sent' = Append(sent, Request("GET", state, polygon))
    /\ requests' = requests + 1
    /\ LET r == download_polygon(resp) IN
       IF r.raised THEN AttemptRaised(r.exc) ELSE AttemptSucceeded(r.value)
    /\ UNCHANGED <<callVars, captcha, internal_id, attempts, fetches, gated, fetchFailed,
                   searches, solvedThis, usedIds>>

\* SicarService.download_polygon_as_bytes: the protected GET.
StreamPolygon(resp) ==
    /\ pc = "request" /\ fn = SvcPolygon
    /\ sent' = Append(sent, Request("GET", state, polygon))
    /\ requests' = requests + 1
    /\ LET r == stream_polygon(resp) IN
       IF r.raised THEN AttemptRaised(r.exc) ELSE AttemptSucceeded(r.value)
    /\ UNCHANGED <<callVars, captcha, internal_id, attempts, fetches, gated, fetchFailed,
                   searches, solvedThis, usedIds>>

\* Sicar._download_property_shapefile, first half: the POST. A status 200
\* answer is written to disk as it is; any other status falls through to
\* the GET; any exception becomes FailedToDownloadPolygonException.
PostShapefile(resp) ==
    /\ pc = "request" /\ fn = LibCar
    /\ sent' = Append(sent, Request("POST", internal_id, "exportShapeFile"))
    /\ requests' = requests + 1
    /\ usedIds' = usedIds \cup {internal_id}
    /\ IF resp.status = NoResponse
       THEN AttemptRaised("FailedToDownloadPolygonException")
       ELSE IF resp.status = 200
       THEN AttemptSucceeded(decode_content(resp.body))
       ELSE /\ pc' = "fallback"
            /\ UNCHANGED <<sleepsThis, tries, retry_count, last_error, outcome, error, ended,
                           carried, carriedCount, result, filename,
                           mismatchLast, lastExc>>
    /\ UNCHANGED <<callVars, captcha, internal_id, attempts, fetches, gated, fetchFailed,
                   searches, solvedThis>>

\* Sicar._download_property_shapefile, second half: the fallback GET with
\* the same id and captcha in the query string.
FallbackGet(resp) ==
    /\ pc = "fallback" /\ fn = LibCar
    /\ sent' = Append(sent, Request("GET", internal_id, "exportShapeFile"))
    /\ requests' = requests + 1
    /\ usedIds' = usedIds \cup {internal_id}
    /\ IF resp.status # 200
       THEN AttemptRaised("FailedToDownloadPolygonException")
       ELSE AttemptSucceeded(decode_content(resp.body))
    /\ UNCHANGED <<callVars, captcha, internal_id, attempts, fetches, gated, fetchFailed,
                   searches, solvedThis>>

\* A protected POST that resolves the internal id again in every attempt.
PostExport_ReResolve(resp) ==
    /\ pc = "request" /\ fn = SvcCar
    /\ searches' = searches + 1
    /\ \E id \in InternalIds :
          /\ internal_id' = id
          /\ sent' = Append(sent, [method |-> "POST", captcha |-> captcha,
                                   target |-> id, base |-> "exportShapeFile"])
          /\ usedIds' = usedIds \cup {id}
    /\ requests' = requests + 1
    /\ LET r == export_as_bytes(resp) IN
       IF r.raised THEN AttemptRaised(r.exc) ELSE AttemptSucceeded(r.value)
    /\ UNCHANGED <<callVars, captcha, attempts, fetches, gated, fetchFailed,
                   solvedThis>>

\* SicarService.download_car_as_bytes: the protected POST.
PostExport(resp) ==
    /\ pc = "request" /\ fn = SvcCar
    /\ sent' = Append(sent, Request("POST", internal_id, "exportShapeFile"))
    /\ requests' = requests + 1
    /\ usedIds' = usedIds \cup {internal_id}
    /\ LET r == export_as_bytes(resp) IN
       IF r.raised THEN AttemptRaised(r.exc) ELSE AttemptSucceeded(r.value)
    /\ UNCHANGED <<callVars, captcha, internal_id, attempts, fetches, gated, fetchFailed,
                   searches, solvedThis>>

\* The loop condition is false: the library returns False, the service
\* raises Exception("... apos {max_retries} tentativas: {last_error}").
Exhausted ==
    /\ pc = "loop" /\ ~Continue
    /\ pc' = "done" /\ ended' = "exhausted"
    /\ IF fn \in Lib
       THEN outcome' = "false" /\ UNCHANGED <<error, carried, carriedCount>>
       ELSE /\ outcome' = "raise" /\ error' = "Exception"
            /\ carried' = last_error /\ carriedCount' = max_retries
    /\ UNCHANGED <<callVars, loopVars, result, filename, obsVars>>

Next ==
    \/ \E resp \in BootResponses : Construct(resp)
    \/ \E f \in PolygonFns, st \in StateArgs, pg \in PolygonArgs :
          \E n \in Budgets(f) : Call(f, st, pg, n)
    \/ \E f \in CarFns : \E n \in Budgets(f) : Call(f, "-", "-", n)
    \/ ValidateTarget
    \/ \E resp \in SearchResponses : ResolveProperty(resp)
    \/ \E resp \in CaptchaResponses, len \in CaptchaLens : FetchCaptcha(resp, len)
    \/ \E resp \in PolygonResponses : RequestPolygon(resp)
    \/ \E resp \in PolygonResponses : StreamPolygon(resp)
    \/ \E resp \in ExportResponses : PostShapefile(resp)
    \/ \E resp \in ExportResponses : FallbackGet(resp)
    \/ \E resp \in ExportResponses : PostExport(resp)
    \/ Exhausted

Spec == Init /\ [][Next]_vars

\* ------------------------------------------------- a caller with a deadline
\* While a download is running, the caller's deadline passes (or the caller
\* cancels its token). The downloads take no deadline or token parameter
\* and read no such signal: nothing in the call changes.
Cancel ==
    /\ pc \in {"pre", "loop", "request", "fallback"}
    /\ ~cancelled
    /\ cancelled' = TRUE
    /\ UNCHANGED <<driver, bootstraps, auxVars, fn, state, polygon, car_number,
                   budget, loopVars, endVars, obsVars>>

NextCancel ==
    \/ Next
    \/ Cancel

\* The deadline is independent of the captcha driver: the clients with the
\* two deterministic drivers are enough to show what the loops do with it.
InitCancel ==
    /\ driver \in {"FourCharStub", "Scripted"}
    /\ MainRest /\ ApiIdle /\ SysIdle
    /\ IsoIdle /\ NormIdle /\ NameIdle /\ ParseIdle

SpecCancel == InitCancel /\ [][NextCancel]_vars

\* ------------------------------------------- two downloads side by side
\* Two SicarService / Sicar instances, each running one library download
\* with tries = IsoTries; their steps interleave freely. Every request of
\* an instance goes through self._session, and the portal may answer it
\* with a Set-Cookie header, which the session's jar stores.
Other(i) == CHOOSE j \in Instances : j # i

\* The cookie an instance holds: the jar of its own session.
CookiesOf(i) == IF sessions[i] = 0 THEN "none" ELSE jars[sessions[i]]

\* The jar after a response that sets `cookie` ("none": no Set-Cookie).
Store(jar, cookie) == IF cookie = "none" THEN jar ELSE cookie

\* Sicar.__init__ of instance i: _create_session builds its httpx.Client,
\* _initialize_cookies sends the bootstrap GET through it, and the download
\* is called on the instance.
IsoConstruct(i, cookie) ==
    /\ iso_pc[i] = "new"
    /\ LET client == create_session(Cardinality({j \in Instances : sessions[j] # 0})) IN
       /\ sessions' = [sessions EXCEPT ![i] = client]
       /\ jars' = [jars EXCEPT ![client] = Store(jars[client], cookie)]
    /\ iso_pc' = [iso_pc EXCEPT ![i] = "loop"]
    /\ iso_tries' = [iso_tries EXCEPT ![i] = IsoTries]
    /\ UNCHANGED <<driver, bootstraps, cancelled, normVars, nameVars, parseVars, apiVars, sysVars, fn, state, polygon, car_number,
                   budget, loopVars, endVars, obsVars>>

\* One attempt of instance i: its requests travel through its session; the
\* attempt succeeds (the call returns) or fails (the loop goes on); either
\* way `finally` consumes one of its tries.
IsoAttempt(i, cookie, ok) ==
    /\ iso_pc[i] = "loop" /\ iso_tries[i] > 0
    /\ jars' = [jars EXCEPT ![sessions[i]] = Store(jars[sessions[i]], cookie)]
    /\ iso_tries' = [iso_tries EXCEPT ![i] = iso_tries[i] - 1]
    /\ iso_pc' = [iso_pc EXCEPT ![i] = IF ok THEN "done" ELSE "loop"]
    /\ UNCHANGED <<sessions, driver, bootstraps, cancelled, normVars, nameVars, parseVars, apiVars, sysVars, fn, state, polygon,
                   car_number, budget, loopVars, endVars, obsVars>>

\* The tries of instance i are used up: its call returns False.
IsoExhausted(i) ==
    /\ iso_pc[i] = "loop" /\ iso_tries[i] = 0
    /\ iso_pc' = [iso_pc EXCEPT ![i] = "done"]
    /\ UNCHANGED <<sessions, jars, iso_tries, driver, bootstraps, cancelled,
                   normVars, nameVars, parseVars, apiVars, sysVars, fn,
                   state, polygon, car_number, budget, loopVars, endVars, obsVars>>

IsoStep(i) ==
    \/ \E cookie \in Cookies \cup {"none"} : IsoConstruct(i, cookie)
    \/ \E cookie \in Cookies \cup {"none"}, ok \in BOOLEAN : IsoAttempt(i, cookie, ok)
    \/ IsoExhausted(i)

NextIso == \E i \in Instances : IsoStep(i)

InitIso ==
    /\ driver = "Tesseract"
    /\ MainRest /\ ApiIdle /\ SysIdle
    /\ IsoRest /\ NormIdle /\ NameIdle /\ ParseIdle

SpecIso == InitIso /\ [][NextIso]_vars

\* ------------------------------------------- normalization of a response
\* One export response answered with status 200: its body is normalized.
InitNormalize ==
    /\ driver = "Tesseract"
    /\ MainRest /\ ApiIdle /\ SysIdle
    /\ IsoIdle /\ NameIdle /\ ParseIdle
    /\ payload \in Payloads
    /\ body \in BodiesOf(payload)
    /\ decoded = <<>>
    /\ normalized = FALSE

Normalize ==
    /\ normalized = FALSE
    /\ decoded' = normalize(body)
    /\ normalized' = TRUE
    /\ UNCHANGED <<payload, body, driver, bootstraps, cancelled, isoVars,
                   nameVars, parseVars, apiVars, sysVars, fn,
                   state, polygon, car_number, budget, loopVars, endVars, obsVars>>

NextNormalize == Normalize

SpecNormalize == InitNormalize /\ [][NextNormalize]_vars

\* --------------------------------------------- naming a property archive
\* One CAR identifier is given to both variants of the property download,
\* and each derives the name of its archive.
InitNames ==
    /\ driver = "Tesseract"
    /\ MainRest /\ ApiIdle /\ SysIdle
    /\ IsoIdle /\ NormIdle /\ ParseIdle
    /\ car_id \in CarNumbers
    /\ lib_name = <<>> /\ svc_name = <<>>
    /\ named = FALSE

DeriveNames ==
    /\ named = FALSE
    /\ lib_name' = car_filename(LibCar, car_id)
    /\ svc_name' = car_filename(SvcCar, car_id)
    /\ named' = TRUE
    /\ UNCHANGED <<car_id, driver, bootstraps, cancelled, isoVars, normVars,
                   parseVars, apiVars, sysVars, fn,
                   state, polygon, car_number, budget, loopVars, endVars, obsVars>>

NextNames == DeriveNames

SpecNames == InitNames /\ [][NextNames]_vars

\* ------------------------------------------ parsing the release-dates page
\* Sicar._parse_release_dates on one page: the loop over the blocks found.
InitParse ==
    /\ driver = "Tesseract"
    /\ MainRest /\ ApiIdle /\ SysIdle
    /\ IsoIdle /\ NormIdle /\ NameIdle
    /\ blocks \in Pages
    /\ block_i = 1
    /\ state_dates = {}
    /\ parsed = FALSE

ParseBlock ==
    /\ parsed = FALSE /\ block_i <= Len(blocks)
    /\ LET b == blocks[block_i] IN
       state_dates' = (IF Qualifies(b) THEN Put(state_dates, b.code, b.date)
                       ELSE state_dates)
    /\ block_i' = block_i + 1
    /\ UNCHANGED <<blocks, parsed, driver, bootstraps, cancelled, isoVars,
                   normVars, nameVars, apiVars, sysVars, fn, state, polygon, car_number, budget,
                   loopVars, endVars, obsVars>>

ParseReturn ==
    /\ parsed = FALSE /\ block_i > Len(blocks)
    /\ parsed' = TRUE
    /\ UNCHANGED <<blocks, block_i, state_dates, driver, bootstraps, cancelled,
                   isoVars, normVars, nameVars, apiVars, sysVars, fn, state, polygon, car_number,
                   budget, loopVars, endVars, obsVars>>

NextParse ==
    \/ ParseBlock
    \/ ParseReturn

SpecParse == InitParse /\ [][NextParse]_vars

\* --------------------------------------- requests through the middleware
\* Requests are served one after the other. The stack, outermost first
\* (add_middleware puts each middleware around the ones added before it):
\* CORSMiddleware and TimezoneMiddleware, which leave the status code alone
\* and are not followed, IPWhitelistMiddleware, AuditLoggingMiddleware, then
\* the router: the dependencies of the route, then the endpoint function.
\* The jobs running when an endpoint counts them, and the portal's answers
\* to a search, are the environment.
RunningCounts == 0..2

NoRequest ==
    [path |-> "-", x_real_ip |-> NoHeader, x_forwarded_for |-> <<>>,
     peer |-> "-", x_api_key |-> NoKey]
\* An entry of the audit log, with the ordinal of the request it is about.
NoEntry == [request |-> 0, status |-> 0, api_key |-> NoKey]
NoHits  == [k \in DownloadPaths \X Peers |-> 0]

GateRest ==
    /\ request = NoRequest /\ gate_pc = "idle" /\ forwarded = "-"
    /\ status = 0 /\ retry_after = 0 /\ handler_ran = FALSE
    /\ scheduled_this = FALSE /\ seen_running = -1 /\ searched = "-"
    /\ received = 0 /\ audit_count = 0 /\ audit_entry = NoEntry
    /\ window = NoHits

InitGate ==
    /\ driver = "Tesseract"
    /\ MainRest /\ SysIdle
    /\ IsoIdle /\ NormIdle /\ NameIdle /\ ParseIdle /\ JobIdle
    /\ allowed_ips \in AllowedIpsSettings
    /\ api_key \in ApiKeySettings
    /\ rate_limit_per_minute_downloads \in RateLimitSettings
    /\ max_concurrent_downloads \in ConcurrencySettings
    /\ GateRest

gateOthers == <<driver, bootstraps, cancelled, isoVars, normVars, nameVars,
                parseVars, sysVars, jobVars, settingVars, fn, state, polygon,
                car_number, budget, loopVars, endVars, obsVars>>

\* A request arrives at the stack.
ReceiveRequest(req) ==
    /\ gate_pc = "idle" /\ received < MaxRequests
    /\ request' = req
    /\ received' = received + 1
    /\ gate_pc' = "whitelist"
    /\ forwarded' = "-" /\ status' = 0 /\ retry_after' = 0
    /\ handler_ran' = FALSE /\ scheduled_this' = FALSE
    /\ seen_running' = -1 /\ searched' = "-"
    /\ UNCHANGED <<audit_count, audit_entry, window, gateOthers>>

\* IPWhitelistMiddleware.dispatch: call_next, or the 403 response.
IPWhitelistDispatch ==
    /\ gate_pc = "whitelist"
    /\ IF whitelist_forwards(allowed_ips, request)
       THEN forwarded' = "yes" /\ gate_pc' = "route" /\ status' = status
       ELSE forwarded' = "no" /\ gate_pc' = "idle" /\ status' = 403
    /\ UNCHANGED <<request, retry_after, handler_ran, scheduled_this,
                   seen_running, searched, received, audit_count,
                   audit_entry, window, gateOthers>>

\* AuditLoggingMiddleware.dispatch has called call_next; the router solves
\* the dependencies of the route. An HTTPException becomes a response
\* inside the stack; any other exception leaves call_next as an exception
\* and is answered 500 by the server, outside the middlewares.
SolveDependencies ==
    /\ gate_pc = "route"
    /\ LET auth == IF "verify_api_key" \in Dependencies(request.path)
                   THEN verify_api_key(request.x_api_key, api_key)
                   ELSE Return(NoKey) IN
       IF ~auth.raised THEN gate_pc' = "endpoint" /\ status' = status
       ELSE IF auth.exc = "HTTP401" THEN gate_pc' = "log" /\ status' = 401
       ELSE gate_pc' = "idle" /\ status' = 500
    /\ UNCHANGED <<request, forwarded, retry_after, handler_ran,
                   scheduled_this, seen_running, searched, received,
                   audit_count, audit_entry, window, gateOthers>>

\* The function registered for POST /downloads/state or POST
\* /downloads/car is called: behind the limiter when the registered
\* function is the limited one, and running_count jobs are running.
DownloadEndpoint(running_count) ==
    /\ gate_pc = "endpoint" /\ request.path \in DownloadPaths
    /\ LET k    == <<request.path, request.peer>>
           hits == window[k] + 1
           a    == download_endpoint(running_count, max_concurrent_downloads) IN
       /\ window' = [window EXCEPT ![k] = hits]
       /\ IF RouteLimited(request.path) /\ hits > rate_limit_per_minute_downloads
          THEN /\ status' = 429 /\ retry_after' = 60
               /\ UNCHANGED <<handler_ran, scheduled_this, seen_running>>
          ELSE /\ status' = a.status /\ retry_after' = a.retry_after
               /\ handler_ran' = TRUE
               /\ scheduled_this' = a.scheduled
               /\ seen_running' = running_count
    /\ gate_pc' = "log"
    /\ UNCHANGED <<request, forwarded, searched, received, audit_count,
                   audit_entry, gateOthers>>

\* main.update_releases: the update is added as a background task.
UpdateReleases ==
    /\ gate_pc = "endpoint" /\ request.path = ReleasesUpdate
    /\ status' = 200 /\ handler_ran' = TRUE /\ scheduled_this' = TRUE
    /\ gate_pc' = "log"
    /\ UNCHANGED <<request, forwarded, retry_after, seen_running, searched,
                   received, audit_count, audit_entry, window, gateOthers>>

\* main.search_property_by_car: the portal answers the bootstrap GET of the
\* new client with boot and the search with resp.
SearchEndpoint(boot, resp) ==
    /\ gate_pc = "endpoint" /\ request.path = SearchCar
    /\ status' = search_endpoint(boot, resp)
    /\ searched' = (IF get(boot).raised \/ get(resp).raised THEN "failure"
                    ELSE IF resp.features = 0 THEN "nomatch"
                    ELSE "match")
    /\ handler_ran' = TRUE
    /\ gate_pc' = "log"
    /\ UNCHANGED <<request, forwarded, retry_after, scheduled_this,
                   seen_running, received, audit_count, audit_entry, window,
                   gateOthers>>

\* AuditLoggingMiddleware.dispatch after call_next returned: log_request.
LogRequest ==
    /\ gate_pc = "log"
    /\ audit_count' = audit_count + 1
    /\ audit_entry' = [request |-> received, status |-> status,
                       api_key |-> audit_api_key(request.x_api_key)]
    /\ gate_pc' = "idle"
    /\ UNCHANGED <<request, forwarded, status, retry_after, handler_ran,
                   scheduled_this, seen_running, searched, received, window,
                   gateOthers>>

\* A minute has passed since the calls counted in the window.
MinuteElapses ==
    /\ gate_pc = "idle" /\ window # NoHits
    /\ window' = NoHits
    /\ UNCHANGED <<request, gate_pc, forwarded, status, retry_after,
                   handler_ran, scheduled_this, seen_running, searched,
                   received, audit_count, audit_entry, gateOthers>>

NextGate ==
    \/ \E req \in Requests : ReceiveRequest(req)
    \/ IPWhitelistDispatch
    \/ SolveDependencies
    \/ \E n \in RunningCounts : DownloadEndpoint(n)
    \/ UpdateReleases
    \/ \E boot \in BootResponses, resp \in SearchResponses : SearchEndpoint(boot, resp)
    \/ LogRequest
    \/ MinuteElapses

SpecGate == InitGate /\ [][NextGate]_vars

\* ------------------------------------------ downloads in the background
\* Background tasks of accepted download requests and daily collections of
\* the scheduler run in threads of their own; their steps interleave. Each
\* constructs a SicarService (whose Sicar client sends the bootstrap GET),
\* then runs download_state / download_property_by_car: the concurrency
\* check, the disk check, the job created, set running, and finished. The
\* polygons of one call are downloaded one after the other, so a call has
\* one job running at a time; one job per call is followed.
Tasks == 1..MaxTasks

\* DataRepository.count_running_downloads: the jobs whose status is running.
count_running_downloads == Cardinality({t \in Tasks : tasks[t].job = "running"})

InitJobs ==
    /\ driver = "Tesseract"
    /\ MainRest /\ SysIdle
    /\ IsoIdle /\ NormIdle /\ NameIdle /\ ParseIdle /\ GateIdle
    /\ allowed_ips = 0 /\ api_key = 0 /\ rate_limit_per_minute_downloads = 0
    /\ max_concurrent_downloads \in ConcurrencySettings
    /\ tasks = [t \in Tasks |-> NoTask]
    /\ disk \in DiskStates
    /\ answered = 0

jobOthers == <<driver, bootstraps, cancelled, isoVars, normVars, nameVars,
               parseVars, sysVars, gateVars, settingVars, fn, state, polygon,
               car_number, budget, loopVars, endVars, obsVars>>

\* An authenticated POST /downloads/state or POST /downloads/car reaches
\* its endpoint function, which answers it: 202 with task t added, or 429.
AcceptDownload(t, kind) ==
    /\ tasks[t].pc = "none"
    /\ LET a == download_endpoint(count_running_downloads, max_concurrent_downloads) IN
       /\ answered' = a.status
       /\ tasks' = IF a.scheduled
                   THEN [tasks EXCEPT ![t] = [NoTask EXCEPT !.pc = "queued", !.kind = kind,
                                                     !.response = a.status]]
                   ELSE tasks
    /\ UNCHANGED <<disk, jobOthers>>

\* Scheduler._daily_collection_job starts in the scheduler's thread.
StartCollection(t) ==
    /\ tasks[t].pc = "none"
    /\ tasks' = [tasks EXCEPT ![t] = [NoTask EXCEPT !.pc = "queued", !.kind = "collection"]]
    /\ UNCHANGED <<disk, answered, jobOthers>>

\* SicarService(db): the Sicar client is constructed, its bootstrap GET
\* goes to the portal, which answers it with boot.
ConstructService(t, boot) ==
    /\ tasks[t].pc = "queued"
    /\ tasks' = [tasks EXCEPT ![t].portal = @ + 1,
                              ![t].pc = IF get(boot).raised THEN "dead" ELSE "constructed"]
    /\ UNCHANGED <<disk, answered, jobOthers>>

\* download_state / download_property_by_car: the concurrency check.
CheckConcurrency(t) ==
    /\ tasks[t].pc = "constructed"
    /\ tasks' = [tasks EXCEPT ![t].pc =
                    IF limit_reached(count_running_downloads, max_concurrent_downloads)
                    THEN "blocked_limit" ELSE "checked"]
    /\ UNCHANGED <<disk, answered, jobOthers>>

\* download_state / download_property_by_car: the disk check.
CheckDisk(t) ==
    /\ tasks[t].pc = "checked"
    /\ tasks' = [tasks EXCEPT ![t].pc =
                    IF check_disk_space(disk).has_space
                    THEN "cleared" ELSE "blocked_disk"]
    /\ UNCHANGED <<disk, answered, jobOthers>>

\* repository.create_download_job / create_download_job_car.
CreateJob(t) ==
    /\ tasks[t].pc = "cleared"
    /\ tasks' = [tasks EXCEPT ![t].pc = "created", ![t].job = "pending"]
    /\ UNCHANGED <<disk, answered, jobOthers>>

\* job.status = "running"; self.db.commit().
StartJob(t) ==
    /\ tasks[t].pc = "created"
    /\ tasks' = [tasks EXCEPT ![t].pc = "downloading", ![t].job = "running"]
    /\ UNCHANGED <<disk, answered, jobOthers>>

\* The library download has returned or raised: the job is completed or
\* failed.
FinishJob(t, ok) ==
    /\ tasks[t].pc = "downloading"
    /\ tasks' = [tasks EXCEPT ![t].pc = "over", ![t].portal = @ + 1,
                              ![t].job = IF ok THEN "completed" ELSE "failed"]
    /\ UNCHANGED <<disk, answered, jobOthers>>

NextJobs ==
    \/ \E t \in Tasks, kind \in RequestKinds : AcceptDownload(t, kind)
    \/ \E t \in Tasks : StartCollection(t)
    \/ \E t \in Tasks, boot \in BootResponses : ConstructService(t, boot)
    \/ \E t \in Tasks : CheckConcurrency(t)
    \/ \E t \in Tasks : CheckDisk(t)
    \/ \E t \in Tasks : CreateJob(t)
    \/ \E t \in Tasks : StartJob(t)
    \/ \E t \in Tasks, ok \in BOOLEAN : FinishJob(t, ok)

SpecJobs == InitJobs /\ [][NextJobs]_vars

\* ============================================= SpecService: download jobs
\* Calls of SicarService.download_property_by_car and runs of
\* execute_daily_collection (which calls download_polygon for every
\* configured polygon), one after the other on one database.

InitService ==
    /\ driver = "Tesseract"
    /\ MainRest /\ ApiIdle /\ WriteIdle /\ SchedIdle /\ ReleaseIdle
    /\ IsoIdle /\ NormIdle /\ NameIdle /\ ParseIdle
    /\ sicar_max_retries \in RetrySettings
    /\ auto_download_polygons \in PolygonSettings
    /\ download_jobs = <<>>
    /\ call = NoCall
    /\ collection = NoCollection

serviceOthers == <<mainVars, oldAuxVars, writeVars, schedVars, releaseVars>>

\* download_property_by_car(car_number, force): the two checks, the look
\* for an earlier download, and the new job.
DownloadCarCall(force, gate) ==
    /\ call.pc = "idle" /\ collection.pc \in {"idle", "done"}
    /\ LET entered == [NoCall EXCEPT !.op = "download_property_by_car",
                                     !.force = force, !.gate = gate] IN
       IF gate # "ok"
       THEN /\ call' = [entered EXCEPT !.pc = "raised"]
            /\ UNCHANGED download_jobs
       ELSE IF already_downloaded(download_jobs, force)
       THEN /\ call' = [entered EXCEPT !.pc = "returned"]
            /\ UNCHANGED download_jobs
       ELSE /\ Len(download_jobs) < MaxJobs
            /\ download_jobs' = Append(download_jobs, create_download_job("car"))
            /\ call' = [entered EXCEPT !.pc = "created",
                                       !.job = Len(download_jobs) + 1]
    /\ UNCHANGED <<sicar_max_retries, auto_download_polygons, collection,
                   serviceOthers>>

\* execute_daily_collection starts: the counters are zero.
CollectionBegins ==
    /\ call.pc = "idle" /\ collection.pc \in {"idle", "done"}
    /\ collection' = [NoCollection EXCEPT !.pc = "state"]
    /\ UNCHANGED <<sicar_max_retries, auto_download_polygons, download_jobs,
                   call, serviceOthers>>

\* download_state(state) is entered: its two checks raise, which the
\* collection counts as one failure, or the polygon loop begins.
DownloadStateCall(gate) ==
    /\ collection.pc = "state"
    /\ collection' =
          IF gate # "ok"
          THEN [collection EXCEPT !.pc = "done", !.failed_jobs = @ + 1]
          ELSE [collection EXCEPT !.pc = "polygons", !.index = 1]
    /\ UNCHANGED <<sicar_max_retries, auto_download_polygons, download_jobs,
                   call, serviceOthers>>

\* download_polygon(state, polygon) for the next configured polygon: the
\* job is created.
DownloadPolygonCall ==
    /\ collection.pc = "polygons" /\ call.pc = "idle"
    /\ collection.index <= Len(auto_download_polygons)
    /\ Len(download_jobs) < MaxJobs
    /\ download_jobs' = Append(download_jobs, create_download_job("polygon"))
    /\ call' = [NoCall EXCEPT !.op = "download_polygon", !.gate = "ok",
                              !.pc = "created", !.job = Len(download_jobs) + 1]
    /\ collection' = [collection EXCEPT !.created = @ \cup {Len(download_jobs) + 1}]
    /\ UNCHANGED <<sicar_max_retries, auto_download_polygons, serviceOthers>>

\* job.status = "running"; commit
JobRunning ==
    /\ call.pc = "created"
    /\ download_jobs' = [download_jobs EXCEPT ![call.job].status = "running"]
    /\ call' = [call EXCEPT !.pc = "running"]
    /\ UNCHANGED <<sicar_max_retries, auto_download_polygons, collection,
                   serviceOthers>>

\* What precedes the retry loop: the enum lookups of download_polygon,
\* which raise for a name that is no member, and `retry_count = 0`.
PrepareLoop ==
    /\ call.pc = "running"
    /\ IF /\ call.op = "download_polygon"
          /\ auto_download_polygons[collection.index] \notin PolygonEnum
       THEN /\ download_jobs' = [download_jobs EXCEPT
                   ![call.job] = failed_job(@, call.retry_count)]
            /\ call' = [call EXCEPT !.pc = "raised"]
       ELSE /\ call' = [call EXCEPT !.pc = "loop", !.retry_count = 0]
            /\ UNCHANGED download_jobs
    /\ UNCHANGED <<sicar_max_retries, auto_download_polygons, collection,
                   serviceOthers>>

\* One iteration of `while retry_count < max_retries`: the library download
\* is called and what it gives is handled.
LibraryCall(res) ==
    /\ call.pc = "loop" /\ call.retry_count < sicar_max_retries
    /\ IF res.kind = "path"
       THEN /\ download_jobs' = [download_jobs EXCEPT
                   ![call.job] = completed_job(@)]
            /\ call' = [call EXCEPT !.pc = "processing", !.calls = @ + 1]
       ELSE LET count == call.retry_count + 1
                after == [call EXCEPT !.calls = @ + 1, !.failed = @ + 1,
                                      !.retry_count = count,
                                      !.last_error = res.msg] IN
            IF is_timeout(res.msg) /\ count < sicar_max_retries
            THEN /\ download_jobs' = [download_jobs EXCEPT
                        ![call.job].retry_count = count]
                 /\ call' = after
            ELSE /\ download_jobs' = [download_jobs EXCEPT
                        ![call.job] = failed_job(@, count)]
                 /\ call' = [after EXCEPT !.pc = "raised"]
    /\ UNCHANGED <<sicar_max_retries, auto_download_polygons, collection,
                   serviceOthers>>

\* _process_downloaded_file(job), which keeps every exception to itself;
\* `return job`.
ProcessDownloadedFile ==
    /\ call.pc = "processing"
    /\ call' = [call EXCEPT !.pc = "returned"]
    /\ UNCHANGED <<sicar_max_retries, auto_download_polygons, download_jobs,
                   collection, serviceOthers>>

\* The call is over. In download_state a returned job joins the list and
\* an exception is logged; the loop goes on with the next polygon.
CallEnds ==
    /\ call.pc \in {"returned", "raised"}
    /\ call' = NoCall
    /\ collection' =
          IF call.op = "download_polygon"
          THEN [collection EXCEPT
                  !.index = @ + 1,
                  !.jobs = IF call.pc = "returned" THEN Append(@, call.job) ELSE @]
          ELSE collection
    /\ UNCHANGED <<sicar_max_retries, auto_download_polygons, download_jobs,
                   serviceOthers>>

\* download_state returns its list and execute_daily_collection adds it to
\* its counters; the configured state was the only one.
StateEnds ==
    /\ collection.pc = "polygons" /\ call.pc = "idle"
    /\ collection.index > Len(auto_download_polygons)
    /\ collection' = [collection EXCEPT
          !.pc = "done",
          !.total_jobs = @ + Len(collection.jobs),
          !.successful_jobs = @ + CountStatus(download_jobs, collection.jobs, "completed"),
          !.failed_jobs = @ + CountStatus(download_jobs, collection.jobs, "failed")]
    /\ UNCHANGED <<sicar_max_retries, auto_download_polygons, download_jobs,
                   call, serviceOthers>>

NextService ==
    \/ \E force \in BOOLEAN, gate \in GateResults : DownloadCarCall(force, gate)
    \/ CollectionBegins
    \/ \E gate \in GateResults : DownloadStateCall(gate)
    \/ DownloadPolygonCall
    \/ JobRunning
    \/ PrepareLoop
    \/ \E res \in LibraryResults : LibraryCall(res)
    \/ ProcessDownloadedFile
    \/ CallEnds
    \/ StateEnds

SpecService == InitService /\ [][NextService]_vars

\* ============================================ SpecWrite: the output file
\* Calls of Sicar.download_state and Sicar.download_by_car_number that
\* write to the same output path, one after the other.

InitWrite ==
    /\ driver = "Tesseract"
    /\ MainRest /\ ApiIdle /\ ServiceIdle /\ SchedIdle /\ ReleaseIdle
    /\ IsoIdle /\ NormIdle /\ NameIdle /\ ParseIdle
    /\ destination = NoFile
    /\ writing = NoWrite

writeOthers == <<mainVars, oldAuxVars, serviceVars, schedVars, releaseVars>>

\* The end of an attempt that raised FailedToDownloadPolygonException or a
\* captcha exception: `tries -= 1`, and False after the last one.
attempt_failed(w) ==
    IF w.tries = 1
    THEN [w EXCEPT !.tries = 0, !.last = "failed", !.pc = "done", !.ended = "false"]
    ELSE [w EXCEPT !.tries = @ - 1, !.last = "failed", !.pc = "attempt"]

\* A download is called for the output path.
LibraryDownload(writer, n) ==
    /\ writing.pc = "idle" /\ writing.number < MaxWrites
    /\ writing' = [NoWrite EXCEPT !.writer = writer, !.pc = "attempt",
                                  !.tries = n, !.before = destination,
                                  !.attempt_before = destination,
                                  !.number = writing.number + 1]
    /\ UNCHANGED <<destination, writeOthers>>

\* An attempt ends before the file is opened: captcha not fetched or not of
\* length 5, status not 200, no content, content type not a zip.
AttemptRejected ==
    /\ writing.pc = "attempt"
    /\ writing' = attempt_failed([writing EXCEPT !.attempt_before = destination])
    /\ UNCHANGED <<destination, writeOthers>>

\* The response is accepted and `open(path, "wb")` runs; the chunks are
\* still to come.
OpenDestination(stream) ==
    /\ writing.pc = "attempt"
    /\ destination' = open_wb(destination)
    /\ writing' = [writing EXCEPT !.pc = "writing", !.incoming = stream,
                                  !.attempt_before = destination]
    /\ UNCHANGED writeOthers

\* fd.write(chunk) for the next chunk of the stream.
WriteChunk ==
    /\ writing.pc = "writing" /\ writing.incoming # <<>>
    /\ destination' = [destination EXCEPT !.chunks = Append(@, Head(writing.incoming))]
    /\ writing' = [writing EXCEPT !.incoming = Tail(@)]
    /\ UNCHANGED writeOthers

\* The stream breaks before its last chunk. _download_polygon lets the
\* transport exception through, which ends download_state;
\* _download_property_shapefile turns it into
\* FailedToDownloadPolygonException, which ends the attempt.
StreamBreaks ==
    /\ writing.pc = "writing" /\ writing.incoming # <<>>
    /\ writing' =
          IF writing.writer = "_download_polygon"
          THEN [writing EXCEPT !.pc = "done", !.last = "failed", !.ended = "raise"]
          ELSE attempt_failed(writing)
    /\ UNCHANGED <<destination, writeOthers>>

\* The stream is exhausted: the file is closed and its path returned.
CloseFile ==
    /\ writing.pc = "writing" /\ writing.incoming = <<>>
    /\ writing' = [writing EXCEPT !.pc = "done", !.last = "ok", !.ended = "path"]
    /\ UNCHANGED <<destination, writeOthers>>

\* _download_property_shapefile with the archive whole in response.content
\* (the answer to the POST, or a base64 text read to its end): one write.
WriteContent(stream) ==
    /\ writing.pc = "attempt"
    /\ writing.writer = "_download_property_shapefile"
    /\ destination' = [exists |-> TRUE, chunks |-> stream]
    /\ writing' = [writing EXCEPT !.pc = "done", !.last = "ok", !.ended = "path",
                                  !.attempt_before = destination]
    /\ UNCHANGED writeOthers

\* The call is over; the file stays.
DownloadOver ==
    /\ writing.pc = "done"
    /\ writing' = [NoWrite EXCEPT !.number = writing.number]
    /\ UNCHANGED <<destination, writeOthers>>

NextWrite ==
    \/ \E writer \in Writers, t \in 1..MaxWriteTries : LibraryDownload(writer, t)
    \/ AttemptRejected
    \/ \E stream \in Streams : OpenDestination(stream)
    \/ WriteChunk
    \/ StreamBreaks
    \/ CloseFile
    \/ \E stream \in Streams : WriteContent(stream)
    \/ DownloadOver

SpecWrite == InitWrite /\ [][NextWrite]_vars

\* ======================================= SpecSched: the collection job
\* The scheduled job daily_sicar_collection, its persisted configuration,
\* the scheduler endpoints and restarts of the application.

InitSched ==
    /\ driver = "Tesseract"
    /\ MainRest /\ ApiIdle /\ ServiceIdle /\ WriteIdle /\ ReleaseIdle
    /\ IsoIdle /\ NormIdle /\ NameIdle /\ ParseIdle
    /\ scheduler_job = NoJob
    /\ job_config = NoConfig
    /\ sched_response = 0
    /\ installed = NoTrigger

schedOthers == <<mainVars, oldAuxVars, serviceVars, writeVars, releaseVars>>

\* TaskScheduler.start at the startup of the application: the jobs of the
\* process before are gone; the configuration is loaded, or created with
\* the default values, and the job is configured from it.
SchedulerStart ==
    /\ LET config == IF job_config = NoConfig THEN default_config ELSE job_config IN
       /\ job_config' = config
       /\ scheduler_job' = _configure_job_from_db(config)
    /\ sched_response' = 0
    /\ UNCHANGED <<installed, schedOthers>>

\* POST /scheduler/jobs/{job_id}/pause
PauseJob ==
    /\ IF scheduler_job = NoJob
       THEN sched_response' = 404 /\ UNCHANGED <<scheduler_job, job_config>>
       ELSE /\ scheduler_job' = [scheduler_job EXCEPT !.next_run_time = None]
            /\ job_config' = IF job_config # NoConfig
                             THEN [job_config EXCEPT !.is_active = FALSE]
                             ELSE job_config
            /\ sched_response' = 200
    /\ UNCHANGED <<installed, schedOthers>>

\* POST /scheduler/jobs/{job_id}/resume
ResumeJob ==
    /\ IF scheduler_job = NoJob
       THEN sched_response' = 404 /\ UNCHANGED <<scheduler_job, job_config>>
       ELSE /\ scheduler_job' = [scheduler_job EXCEPT !.next_run_time = "set"]
            /\ job_config' = IF job_config # NoConfig
                             THEN [job_config EXCEPT !.is_active = TRUE]
                             ELSE job_config
            /\ sched_response' = 200
    /\ UNCHANGED <<installed, schedOthers>>

\* POST /scheduler/jobs/{job_id}/run: job.modify(next_run_time=now)
RunJobNow ==
    /\ IF scheduler_job = NoJob
       THEN sched_response' = 404 /\ UNCHANGED scheduler_job
       ELSE /\ scheduler_job' = [scheduler_job EXCEPT !.next_run_time = "set"]
            /\ sched_response' = 200
    /\ UNCHANGED <<job_config, installed, schedOthers>>

\* POST /scheduler/jobs/{job_id}/reschedule: the validations, the new
\* trigger (job.reschedule gives the job its next run time) and the
\* configuration saved for it.
RescheduleJob(req) ==
    /\ IF ~valid_request(req)
       THEN sched_response' = 400 /\ UNCHANGED <<scheduler_job, job_config, installed>>
       ELSE IF scheduler_job = NoJob
       THEN sched_response' = 404 /\ UNCHANGED <<scheduler_job, job_config, installed>>
       ELSE /\ scheduler_job' = [trigger |-> reschedule_job_advanced(req),
                                 next_run_time |-> "set"]
            /\ job_config' = reschedule_config(req, scheduler_job'.next_run_time # None)
            /\ installed' = reschedule_job_advanced(req)
            /\ sched_response' = 200
    /\ UNCHANGED schedOthers

NextSched ==
    \/ SchedulerStart
    \/ PauseJob
    \/ ResumeJob
    \/ RunJobNow
    \/ \E req \in RescheduleRequests : RescheduleJob(req)

SpecSched == InitSched /\ [][NextSched]_vars

\* ===================================== SpecRelease: release dates saved
\* Calls of DataRepository.save_release_date from two database sessions.

InitRelease ==
    /\ driver = "Tesseract"
    /\ MainRest /\ ApiIdle /\ ServiceIdle /\ WriteIdle /\ SchedIdle
    /\ IsoIdle /\ NormIdle /\ NameIdle /\ ParseIdle
    /\ state_releases = <<>>
    /\ savers = [s \in Savers |-> NoSave]
    /\ saves = [st \in States |-> NoSaves]
    /\ save_count = 0

releaseOthers == <<mainVars, oldAuxVars, serviceVars, writeVars, schedVars>>

\* save_release_date(state, release_date) begins in session s: the query
\* for the row of the state.
QueryExisting(s, st, date) ==
    /\ savers[s].pc = "idle" /\ save_count < MaxSaves
    /\ save_count' = save_count + 1
    /\ savers' = [savers EXCEPT ![s] =
          [pc |-> "queried", state |-> st, release_date |-> date,
           existing |-> release_row(state_releases, st), id |-> save_count + 1]]
    /\ saves' = [saves EXCEPT ![st].begun = save_count + 1]
    /\ UNCHANGED <<state_releases, releaseOthers>>

\* The rest of the call: the row found is updated, or a new row is added,
\* and the session commits. The unique index on `state` refuses a second
\* row for the state, and the call raises.
CommitRelease(s) ==
    /\ savers[s].pc = "queried"
    /\ LET me == savers[s]
           taken == release_row(state_releases, me.state) # 0 IN
       /\ state_releases' =
             IF me.existing # 0
             THEN [state_releases EXCEPT ![me.existing].release_date = me.release_date]
             ELSE IF taken THEN state_releases
             ELSE Append(state_releases,
                         [state |-> me.state, release_date |-> me.release_date])
       /\ saves' = [saves EXCEPT ![me.state] =
             [@ EXCEPT !.ended = me.id, !.release_date = me.release_date,
                       !.raised = (me.existing = 0 /\ taken)]]
    /\ savers' = [savers EXCEPT ![s] = NoSave]
    /\ UNCHANGED <<save_count, releaseOthers>>

NextRelease ==
    \/ \E s \in Savers, st \in States, date \in ReleaseDates : QueryExisting(s, st, date)
    \/ \E s \in Savers : CommitRelease(s)

SpecRelease == InitRelease /\ [][NextRelease]_vars

\* ================================================================ claims

\* C1: captcha length gate. In every retry loop and every attempt, a
\* protected request is issued only with a text the driver returned in that
\* attempt and whose length is exactly 5; and when an attempt whose solved
\* text has length 5 has moved past the gate, a protected request carrying
\* that text has been issued in it. A text of any other length (or no text
\* at all, when the fetch failed) leads to no protected request.
C1_LengthGate ==
    /\ \A i \in DOMAIN sent :
          solvedThis /\ sent[i].captcha = captcha /\ Len(sent[i].captcha) = 5
    /\ (solvedThis /\ Len(captcha) # 5) => sent = <<>>
    /\ (~solvedThis) => sent = <<>>
    /\ (solvedThis /\ Len(captcha) = 5 /\ pc \in {"loop", "fallback", "done"})
          => (Len(sent) >= 1 /\ sent[1].captcha = captcha)

\* A length-5 attempt that issued its request and failed, and the loop goes on.
C1_Witness ==
    pc = "loop" /\ solvedThis /\ Len(captcha) = 5 /\ Len(sent) = 1 /\ attempts = 2

\* C2: once a call has entered its attempt loop, it ends only in success or
\* in exhaustion; no per-attempt failure (captcha fetch failure, length
\* mismatch, rejected response, transport error) is propagated to the caller.
C2_NoPerAttemptErrorEscapes ==
    (pc = "done" /\ attempts > 0) => ended \in {"success", "exhausted"}

C4_OnlyZipAccepted ==
    (fn \in CarFns /\ outcome = "return") => result.kind = "zip"

\* C5: with a driver that always answers a four character text, a
\* region/polygon download with valid arguments performs exactly
\* max_attempts captcha fetches and no protected request, and ends in
\* exhaustion.
C5_FourCharStubExhausts ==
    (/\ driver = "FourCharStub" /\ fn \in PolygonFns /\ pc = "done"
     /\ state \in States /\ polygon \in Polygons)
    => (ended = "exhausted" /\ fetches = budget /\ requests = 0)

C7_FreshCaptchaPerAttempt ==
    /\ fetches = attempts
    /\ \A i \in DOMAIN sent :
          /\ sent[i].captcha # <<>>
          /\ \A j \in DOMAIN sent[i].captcha : sent[i].captcha[j] = attempts

\* A request issued in a third attempt, after attempts that left other texts.
C7_Witness ==
    attempts = 3 /\ Len(sent) >= 1 /\ pc = "loop"

\* C8: a resolved captcha text is submitted in at most one protected
\* request: no second request of an attempt carries the same text.
C8_OneShotCredential ==
    \A i, j \in DOMAIN sent : sent[i].captcha = sent[j].captcha => i = j

\* C9: a precondition failure (unknown region or polygon token, a CAR
\* number whose search yields no property or no internal id) ends the call
\* with an exception before the loop: no attempt is started, no captcha is
\* fetched and no protected request is issued.
C9_PreconditionBeforeLoop ==
    LET invalid ==
           \/ fn \in PolygonFns /\ (state \notin States \/ polygon \notin Polygons)
           \/ fn \in CarFns /\ internal_id = NoId
    IN  /\ (invalid /\ pc \notin {"idle", "pre"}) =>
              /\ pc = "done" /\ outcome = "raise" /\ error # NoError
              /\ attempts = 0 /\ fetches = 0 /\ requests = 0
        /\ ended = "precondition" => (invalid /\ fetches = 0 /\ requests = 0)

\* A region download refused for its polygon token.
C9_Witness ==
    /\ fn \in PolygonFns /\ state \in States /\ polygon \notin Polygons
    /\ pc = "done" /\ outcome = "raise"

\* C10: a property/CAR download issues the search exactly once, before the
\* first captcha fetch, and every protected request of the call carries the
\* internal id that search returned.
C10_SingleSearch ==
    fn \in CarFns =>
       /\ searches <= 1
       /\ (pc \notin {"idle", "pre"}) => searches = 1
       /\ fetches > 0 => (searches = 1 /\ internal_id \in InternalIds)
       /\ \A i \in DOMAIN sent : sent[i].target = internal_id
       /\ usedIds \subseteq {internal_id}

\* Requests of two different attempts of one property download.
C10_Witness ==
    fn \in CarFns /\ requests >= 2 /\ attempts >= 2 /\ Len(sent) = 1 /\ searches = 1

\* C11: in every retry loop exactly one jitter sleep separates a failed
\* attempt from the start of the next one, and the successful attempt is
\* followed by no jitter sleep: the call returns without sleeping.
C11_OneSleepPerFailedAttempt ==
    /\ (pc = "loop" /\ attempts > 0 => sleepsThis = 1)
    /\ (ended = "success" => sleepsThis = 0)

C14_NoAttemptAfterCancel ==
    [][cancelled => attempts' = attempts]_vars

\* C15: two downloads running side by side through separate instances each
\* own their HTTP session and their attempt counter: the instances never
\* hold the same session, and in every interleaving a step of one instance
\* (its construction, a successful or failed attempt, its exhaustion)
\* leaves the cookies held by the other and the other's attempt counter
\* and position as they were.
C15_InstancesIsolated ==
    /\ [](\A i \in Instances :
             sessions[i] # 0 /\ sessions[Other(i)] # 0
                => sessions[i] # sessions[Other(i)])
    /\ [][\A i \in Instances :
            IsoStep(i) =>
               /\ CookiesOf(Other(i))' = CookiesOf(Other(i))
               /\ iso_tries'[Other(i)] = iso_tries[Other(i)]
               /\ iso_pc'[Other(i)] = iso_pc[Other(i)]]_vars

C15_Witness ==
    /\ CookiesOf(1) \in Cookies /\ CookiesOf(2) \in Cookies
    /\ CookiesOf(1) # CookiesOf(2)
    /\ iso_pc[1] = "loop" /\ iso_tries[1] = 0
    /\ iso_pc[2] = "loop" /\ iso_tries[2] = IsoTries

\* C16: in a region/polygon download the number of captcha fetches equals
\* the number of attempts started, and the number of protected requests
\* equals the number of attempts whose solved text had length 5 (the one
\* of the current attempt still to be sent while the call is between gate
\* and request). With the solver scripted to answer texts of lengths 2, 4,
\* 5, 5 and every fetch served, the first two attempts send nothing, so a
\* call that fails on its first protected request (a zero-length answer)
\* and succeeds on its second has made exactly 4 fetches and 2 protected
\* requests, and what it returns is the (non-empty) payload of the answer
\* to the request that succeeded.
C16_FetchesAndRequests ==
    /\ fetches = attempts
    /\ fn \in PolygonFns /\ pc \in {"loop", "done"} => requests = gated
    /\ fn \in PolygonFns /\ pc = "request" => requests + 1 = gated
    /\ driver = "Scripted" /\ ~fetchFailed =>
          gated = (IF attempts > 2 THEN attempts - 2 ELSE 0)
    /\ driver = "Scripted" /\ ~fetchFailed /\ fn \in PolygonFns
          /\ ended = "success" /\ requests = 2
          => fetches = 4 /\ result.kind = "zip" /\ result.size > 0

C16_Witness ==
    /\ driver = "Scripted" /\ fn = LibPolygon /\ ~fetchFailed
    /\ ended = "success" /\ fetches = 4 /\ requests = 2 /\ result.size > 0

\* C17: normalization of the property download response. When the text
\* starts with data:application/zip;base64, the result is the base64
\* decoding of everything after the first comma, which is the archive the
\* portal wrapped; when the text does not start with that prefix the result
\* is the body as received, byte for byte.
C17_Normalization ==
    normalized = TRUE =>
       IF StartsWith(body, Prefix)
       THEN /\ decoded = b64decode(SubSeq(body, Len(Prefix) + 1, Len(body)))
            /\ decoded = payload
       ELSE decoded = body

C17_Witness ==
    /\ normalized = TRUE /\ StartsWith(body, Prefix)
    /\ decoded = <<80, 75, 255>>

\* C18: on success a region/polygon download names its output exactly
\* {region code}_{polygon-kind token}.zip (SP_APPS.zip for region SP and
\* polygon APPS), in the file-writing variant and in the bytes-returning
\* variant alike; a call that has not succeeded names no output.
C18_PolygonFilename ==
    /\ fn \in PolygonFns /\ ended = "success"
          => filename = <<state, "_", polygon, ".zip">>
    /\ ended # "success" => filename = <<>>

C18_Witness ==
    /\ fn = LibPolygon /\ ended = "success"
    /\ filename = <<"SP", "_", "APPS", ".zip">>

\* C19: for every CAR identifier the file name of a property download is
\* the identifier with every '-' and every '/' replaced by '_', followed
\* by .zip, and the file-writing variant and the bytes variant derive the
\* same name for the same identifier.
C19_SameSanitizedName ==
    named = TRUE =>
       LET safe == [i \in 1..Len(car_id) |->
                       IF car_id[i] \in {"-", "/"} THEN "_" ELSE car_id[i]]
       IN /\ lib_name = safe \o <<".zip">>
          /\ svc_name = safe \o <<".zip">>
          /\ lib_name = svc_name

\* C20 (as claimed): for every sequence of state blocks the parser returns
\* exactly the (region, date) pairs of the blocks whose code is a
\* recognized region and whose date text is present and not empty; the
\* other blocks are skipped.
C20_ExactlyQualifyingPairs ==
    parsed = TRUE =>
       state_dates = {<<blocks[i].code, blocks[i].date>> :
                         i \in {j \in 1..Len(blocks) : Qualifies(blocks[j])}}

\* C20 (amended): the parser returns a mapping with one entry for every
\* region that has a block with a recognized code and a present, non-empty
\* date, and its date is that of the last such block of the region; blocks
\* with an unrecognized or missing code, or without a date, are skipped, so
\* a page of one recognized and one garbled block yields exactly one entry.
C20_LastQualifyingBlockWins ==
    parsed = TRUE =>
       LET known(r) == {j \in 1..Len(blocks) :
                           blocks[j].code = r /\ blocks[j].code \in States
                           /\ blocks[j].date \notin {NoTag, ""}}
           last(r)  == CHOOSE j \in known(r) : \A k \in known(r) : k <= j
       IN /\ state_dates = {<<r, blocks[last(r)].date>> :
                               r \in {q \in States : known(q) # {}}}
          /\ \A i \in 1..Len(blocks) :
                (/\ Qualifies(blocks[i])
                 /\ \A j \in 1..Len(blocks) : j # i => blocks[j].code \notin States)
                => state_dates = {<<blocks[i].code, blocks[i].date>>}

C20_Witness ==
    /\ parsed = TRUE /\ Len(blocks) = 2
    /\ blocks[1] = [code |-> "SP", date |-> "01/02/2024"]
    /\ blocks[2].code = "XX" /\ blocks[2].date = "03/04/2024"
    /\ state_dates = {<<"SP", "01/02/2024">>}

\* C21 (SpecGate): a CAR with no match is reported as not found, apart from
\* a transport or lookup failure: when the portal answers the search with
\* an empty feature list, Sicar.search_by_car_number raises an error of a
\* kind no failed lookup raises, and GET /search/car/{car_number} is
\* answered 404; it is answered 500 only for another failure.
C21_NotFoundIsNot500 ==
    /\ searched = "nomatch" =>
          /\ status = 404
          /\ \A empty \in SearchResponses, failed \in SearchResponses :
                (~get(empty).raised /\ empty.features = 0 /\ get(failed).raised)
                   => search_by_car_number(empty).exc
                         # search_by_car_number(failed).exc
    /\ (request.path = SearchCar /\ status = 500) => searched = "failure"

\* C22 (SpecGate): with an API key configured, a request to a protected
\* endpoint (POST /downloads/state, POST /downloads/car, POST
\* /releases/update) whose X-API-Key header is absent or differs from the
\* configured key never gets to the endpoint function: the running jobs are
\* not counted, no background task is added, and the request the router
\* receives is answered 401, whatever the running jobs and the calls already
\* counted this minute.
C22_UnauthenticatedIs401 ==
    (/\ api_key # NoKey
     /\ request.path \in {DownloadsState, DownloadsCar, ReleasesUpdate}
     /\ request.x_api_key # api_key)
    => /\ gate_pc # "endpoint"
       /\ ~handler_ran /\ ~scheduled_this /\ seen_running = -1
       /\ (forwarded = "yes" /\ gate_pc \in {"log", "idle"}) => status = 401

\* A request with a key that differs from the configured one in its last
\* character has been answered 401 while calls were counted this minute.
C22_Witness ==
    /\ api_key = ConfiguredKey /\ request.x_api_key = OtherKey
    /\ request.path = DownloadsState
    /\ gate_pc = "idle" /\ status = 401 /\ ~scheduled_this
    /\ window[<<DownloadsState, request.peer>>] > 0

\* C23 (SpecGate): a request that reaches the endpoint function of POST
\* /downloads/state or POST /downloads/car while the running download jobs
\* are at or above max_concurrent_downloads is answered 429 with a
\* Retry-After header and adds no background task; a request to these
\* paths that finds fewer running jobs is not answered 429.
C23_ConcurrencyGate ==
    /\ (handler_ran /\ request.path \in {DownloadsState, DownloadsCar}) =>
          IF seen_running >= max_concurrent_downloads
          THEN status = 429 /\ retry_after > 0 /\ ~scheduled_this
          ELSE status # 429 /\ scheduled_this
    /\ (request.path \in {DownloadsState, DownloadsCar} /\ status = 429) =>
          seen_running >= max_concurrent_downloads

\* A download request that found exactly max_concurrent_downloads jobs
\* running has been answered 429.
C23_Witness ==
    /\ request.path = DownloadsCar /\ handler_ran
    /\ seen_running = max_concurrent_downloads
    /\ status = 429 /\ retry_after = 60 /\ ~scheduled_this

\* C25 (SpecGate): when more requests of one client reach the endpoint of
\* a download path within one minute than
\* rate_limit_per_minute_downloads, every request beyond the limit is
\* answered 429 and adds no background task.
C25_RateLimited ==
    (/\ gate_pc \in {"log", "idle"}
     /\ request.path \in {DownloadsState, DownloadsCar}
     /\ forwarded = "yes" /\ api_key # NoKey /\ request.x_api_key = api_key
     /\ window[<<request.path, request.peer>>] > rate_limit_per_minute_downloads)
    => status = 429 /\ ~scheduled_this

\* C26 (SpecGate): with a non-empty allowed_ips the whitelist hands a
\* request on only if its client address (X-Real-IP, else the first
\* X-Forwarded-For entry, else the peer address) is a localhost address or
\* is listed; any other request is answered 403 and no endpoint function
\* is called for it. With an empty allowed_ips every request is handed on.
C26_Whitelist ==
    forwarded # "-" =>
       LET ip == IF request.x_real_ip # "" THEN request.x_real_ip
                 ELSE IF request.x_forwarded_for # <<>>
                      THEN request.x_forwarded_for[1]
                 ELSE request.peer
           allowed == \/ allowed_ips = <<>>
                      \/ ip \in {"127.0.0.1", "::1", "localhost"}
                      \/ \E i \in 1..Len(allowed_ips) : allowed_ips[i] = ip
       IN /\ forwarded = "yes" <=> allowed
          /\ forwarded = "no" =>
                /\ status = 403 /\ gate_pc = "idle"
                /\ ~handler_ran /\ ~scheduled_this /\ searched = "-"

\* A request from a listed peer whose X-Real-IP names an unlisted address
\* has been answered 403.
C26_Witness ==
    /\ allowed_ips # <<>> /\ forwarded = "no" /\ status = 403
    /\ request.x_real_ip = ForeignIp /\ request.peer = ListedIp

\* C27 (SpecGate): every request received has exactly one entry in the
\* audit log once it has been answered, a request answered 403 by the
\* whitelist and a request answered with an error included.
C27_OneEntryPerRequest ==
    gate_pc = "idle" =>
       /\ audit_count = received
       /\ received > 0 => audit_entry.request = received
                          /\ audit_entry.status = status

\* C28 (SpecGate): the api_key field of the audit entry of a request holds
\* nothing, or the first eight characters of the key the request presented
\* followed by "..."; it never holds the key itself.
C28_MaskedKey ==
    (received > 0 /\ audit_entry.request = received) =>
       LET key   == request.x_api_key
           field == audit_entry.api_key
       IN /\ field # NoKey =>
                /\ Len(key) > 8
                /\ field = SubSeq(key, 1, 8) \o <<".", ".", ".">>
          /\ key # NoKey => field # key
          /\ Len(field) <= 11

\* The entry of a request that presented the configured key has been
\* written.
C28_Witness ==
    /\ audit_entry.request = received /\ received > 0
    /\ request.x_api_key = ConfiguredKey /\ api_key = ConfiguredKey
    /\ audit_entry.api_key = ShortKey \o Dots

\* C24 (SpecJobs): while the free disk space is below min_disk_space_gb,
\* or the disk usage cannot be read, a state or CAR download is blocked:
\* its request ends in an error, no DownloadJob is created for it and no
\* request of it goes to the portal.
C24_DiskBlocksDownload ==
    \A t \in Tasks :
       (/\ ~disk.readable \/ disk.free_gb < min_disk_space_gb
        /\ tasks[t].response # 0)
       => /\ tasks[t].response >= 400
          /\ tasks[t].job = "none"
          /\ tasks[t].portal = 0

\* C29 (SpecJobs): under every interleaving of download requests,
\* background tasks and scheduled collections, the jobs whose status is
\* running never exceed max_concurrent_downloads.
C29_RunningWithinLimit ==
    Cardinality({t \in Tasks : tasks[t].job = "running"})
       <= max_concurrent_downloads

\* Attempts the loop of the current call may still start.
AttemptsLeft == IF fn \in Lib THEN tries ELSE max_retries - retry_count

\* Largest attempt budget of a call.
MaxBudget == IF MaxTries > max_retries THEN MaxTries ELSE max_retries

\* A measure of what is left of the client's construction and call.
Rank ==
    CASE pc = "new"      -> 4 * MaxBudget + 4
      [] pc = "idle"     -> 4 * MaxBudget + 3
      [] pc = "pre"      -> 4 * budget + 2
      [] pc = "loop"     -> 4 * AttemptsLeft + 1
      [] pc = "request"  -> 4 * AttemptsLeft
      [] pc = "fallback" -> 4 * AttemptsLeft - 1
      [] OTHER           -> 0

C31_JobLifecycle ==
    /\ [](/\ \A j \in 1..Len(download_jobs) :
               download_jobs[j].status = "completed"
               => /\ download_jobs[j].file_path # NULL
                  /\ download_jobs[j].file_size # NULL
          /\ (call.pc \in {"returned", "raised"} /\ call.job # 0)
               => download_jobs[call.job].status \in {"completed", "failed"})
    /\ [][/\ \A j \in 1..Len(download_jobs) :
               /\ download_jobs'[j].status # download_jobs[j].status
                    => <<download_jobs[j].status, download_jobs'[j].status>>
                         \in {<<"pending", "running">>, <<"running", "completed">>,
                              <<"running", "failed">>}
               /\ download_jobs[j].status \in {"completed", "failed"}
                    => download_jobs'[j] = download_jobs[j]
          /\ \A j \in (Len(download_jobs) + 1)..Len(download_jobs') :
               download_jobs'[j].status = "pending"]_vars

\* A call has returned its completed job after an earlier call left its
\* job failed.
C31_Witness ==
    /\ call.pc = "returned" /\ call.job = 2
    /\ download_jobs[2].status = "completed"
    /\ download_jobs[2].file_path # NULL
    /\ download_jobs[1].status = "failed"

\* C32 (SpecService): download_polygon and download_property_by_car call
\* the library download at most sicar_max_retries times per job; a further
\* call is made only after a failure whose message contains "timeout" or
\* "timed out" while the retry count is below sicar_max_retries; any
\* other failed call (the library returning False included) marks the job
\* failed at once, with retry_count equal to the number of failed calls.
C32_RetryOnlyOnTimeout ==
    /\ [](call.calls <= sicar_max_retries)
    /\ [][/\ (call'.calls > call.calls /\ call.calls > 0)
               => /\ call.failed = call.calls
                  /\ call.last_error \in TimeoutMessages
                  /\ call.retry_count < sicar_max_retries
          /\ (/\ call'.failed > call.failed
              /\ ~(/\ call'.last_error \in TimeoutMessages
                   /\ call'.failed < sicar_max_retries))
               => /\ call'.pc = "raised"
                  /\ download_jobs'[call.job].status = "failed"
                  /\ download_jobs'[call.job].retry_count = call'.failed]_vars

\* A job failed at its second call: the first timed out, the second
\* returned False with a call still left.
C32_Witness ==
    /\ call.pc = "raised" /\ call.calls = 2 /\ sicar_max_retries = 3
    /\ call.last_error = ReturnedFalse
    /\ download_jobs[call.job].status = "failed"
    /\ download_jobs[call.job].retry_count = 2

\* C33 (SpecWrite): when a download attempt, or a whole download call,
\* fails, the file at the output path is as it was before: no partly
\* written file remains and a complete file downloaded earlier is neither
\* truncated nor replaced.
C33_FailureLeavesFile ==
    /\ (writing.last = "failed" /\ writing.pc \in {"attempt", "done"})
          => destination = writing.attempt_before
    /\ (writing.pc = "done" /\ writing.ended \in {"false", "raise"})
          => destination = writing.before

\* C34 as stated (SpecService): download_property_by_car with force=False,
\* when a completed job exists for the CAR number, creates no new job and
\* sends nothing to the portal; with force=True it always creates a new job
\* and downloads again.
C34_CompletedNeverRepeated ==
    [][(call.pc = "idle" /\ call'.op = "download_property_by_car")
         => /\ (/\ ~call'.force
                /\ \E j \in 1..Len(download_jobs) :
                      /\ download_jobs[j].target = "car"
                      /\ download_jobs[j].status = "completed")
                 => /\ download_jobs' = download_jobs
                    /\ call'.job = 0 /\ call'.pc \in {"returned", "raised"}
            /\ call'.force
                 => /\ Len(download_jobs') = Len(download_jobs) + 1
                    /\ call'.job = Len(download_jobs')]_vars

\* C34 (SpecService): download_property_by_car with force=False, when the
\* most recent job of the CAR number is completed, creates no new job and
\* sends nothing to the portal, so repeating it leaves the jobs as they
\* are; with force=True, when the concurrency and disk checks pass, it
\* creates a new job and calls the library download again.
C34_LatestCompletedNotRepeated ==
    /\ [][(call.pc = "idle" /\ call'.op = "download_property_by_car")
            => /\ (/\ ~call'.force
                   /\ \E j \in 1..Len(download_jobs) :
                         /\ download_jobs[j].target = "car"
                         /\ download_jobs[j].status = "completed"
                         /\ \A k \in (j + 1)..Len(download_jobs) :
                               download_jobs[k].target # "car")
                    => /\ download_jobs' = download_jobs
                       /\ call'.job = 0 /\ call'.pc \in {"returned", "raised"}
               /\ (call'.force /\ call'.gate = "ok")
                    => /\ Len(download_jobs') = Len(download_jobs) + 1
                       /\ download_jobs'[Len(download_jobs')].target = "car"
                       /\ call'.job = Len(download_jobs')
                       /\ call'.pc = "created"]_vars
    /\ []((/\ call.op = "download_property_by_car" /\ call.force
           /\ call.gate = "ok" /\ call.pc \in {"returned", "raised"})
            => call.job # 0 /\ call.calls >= 1)
    /\ []((call.job = 0 /\ call.pc # "idle") => call.calls = 0)

\* An unforced call has returned without a job of its own, the CAR number
\* having two completed jobs, the second made by a forced call.
C34_Witness ==
    /\ call.op = "download_property_by_car" /\ ~call.force
    /\ call.pc = "returned" /\ call.job = 0 /\ call.calls = 0
    /\ Len(download_jobs) = 2
    /\ \A j \in 1..2 : /\ download_jobs[j].target = "car"
                       /\ download_jobs[j].status = "completed"

\* C35 (SpecService): in the result of execute_daily_collection every
\* polygon download attempted during the run that ended failed is counted
\* in `failed` and in `total_jobs`, so successful + failed is the number
\* of download jobs created during the run.
C35_FailedJobsCounted ==
    (collection.pc = "done" /\ collection.created # {})
      => /\ collection.failed_jobs
              = Cardinality({j \in collection.created :
                               download_jobs[j].status = "failed"})
         /\ collection.total_jobs = Cardinality(collection.created)
         /\ collection.successful_jobs + collection.failed_jobs
              = Cardinality(collection.created)

\* C36 (SpecSched): after any sequence of pause, resume, run-now and
\* reschedule requests on a scheduled job with a persisted configuration,
\* the persisted is_active flag, reported as `paused` by GET
\* /scheduler/jobs, agrees with the scheduler: the job is reported paused
\* if and only if it has no next run time.
C36_PausedAgreesWithScheduler ==
    (scheduler_job # NoJob /\ job_config # NoConfig)
      => /\ get_jobs_paused(scheduler_job, job_config) = ~job_config.is_active
         /\ get_jobs_paused(scheduler_job, job_config)
              <=> scheduler_job.next_run_time = None

\* C37 (SpecRelease): after any sequence of save_release_date calls, calls
\* for one state from concurrent sessions included, there is at most one
\* StateRelease row per state, and it holds the release date of the most
\* recent call for the state (the call that began last and ended last).
C37_OneRowLatestDate ==
    \A st \in States :
       /\ Cardinality({i \in 1..Len(state_releases) :
                          state_releases[i].state = st}) <= 1
       /\ (/\ \A s \in Savers : savers[s].pc = "idle"
           /\ saves[st].ended # 0 /\ saves[st].begun = saves[st].ended)
            => /\ release_row(state_releases, st) # 0
               /\ state_releases[release_row(state_releases, st)].release_date
                    = saves[st].release_date

\* C38 (SpecSched): a schedule set through POST
\* /scheduler/jobs/{job_id}/reschedule survives a restart: the trigger
\* TaskScheduler.start builds from the persisted configuration fires on the
\* same weekday, hour and minute, or at the same interval, as the trigger
\* the request installed.
C38_ScheduleSurvivesRestart ==
    (installed # NoTrigger /\ scheduler_job # NoJob)
      => Firing(scheduler_job.trigger) = Firing(installed)

====
